---- MODULE Spec2Model ----
(***************************************************************************)
(* A model of the SWIFT task scheduler and cell engine: construction of    *)
(* the task graph (engine.c), ranking and launching of the tasks           *)
(* (scheduler.c), the runner loop (runner.c), the cell locks taken by the  *)
(* tasks (task.c) and the sorting of the cells (runner.c).                 *)
(***************************************************************************)
EXTENDS Integers, Sequences, FiniteSets, Bags, TLC

(***************************************************************************)
(* Bounds of the model.                                                    *)
(***************************************************************************)
\* number of runner threads created by engine_init (main.c: -t)
NrThreads == 2

\* number of queues of the scheduler (parameter Scheduler:nr_queues)
NrQueues == 2

\* the number of tasks of the graphs that are not made by an engine
MaxTasks == 3

\* the ranks of a redistribution
NrNodes == 2

\* the gas particles and the dark matter particles of a redistribution
MaxGas == 3

MaxDm == 1

\* the top-level cells of a repartition
NrCells == 3

\* the time steps of an engine
MaxSteps == 3

\* the parts of a small leaf cell at most
MaxCount == 2

\* the parts of a leaf cell of middle size
MidCount == 20

\* the parts of a large leaf cell
BigCount == 8200

(***************************************************************************)
(* Generic helpers.                                                        *)
(***************************************************************************)
NULL == 0

\* an array given by its elements, as a sequence
Array(f) == SubSeq(f, 1, Len(f))

SeqToSet(s) == {s[i] : i \in 1..Len(s)}

Max(a, b) == IF a > b THEN a ELSE b

\* the bits set in the integer n, as a set of bit positions (13 sort bits)
BitSet(n) == {i \in 0..12 : (n \div (2^i)) % 2 = 1}

RECURSIVE BitVal(_)
BitVal(S) == IF S = {} THEN 0
             ELSE LET i == CHOOSE x \in S : TRUE IN 2^i + BitVal(S \ {i})

BitOr(a, b) == BitVal(BitSet(a) \cup BitSet(b))
BitAnd(a, b) == BitVal(BitSet(a) \cap BitSet(b))
BitAndNot(a, b) == BitVal(BitSet(a) \ BitSet(b))

(***************************************************************************)
(* The space: a row of top-level cells (cdim = {n,1,1}, not periodic),     *)
(* each possibly split into progeny.  Cells are numbered from 1, NULL = 0. *)
(*   split[c]  c->split, and c's h_max is small enough for its tasks to be *)
(*             split (h_max * kernel_gamma * space_stretch < dmin / 2)     *)
(*   small[c]  c->count < space_subsize / c->count: a task on c becomes a  *)
(*             sub-task instead of being split                             *)
(***************************************************************************)
Cells == 1..3

\* sort direction of two cells that are neighbours along x:
\* runner_shift[4] = {1, 0, 0}
sid_x == 4

\* the rank of this engine
engine_rank == 0

\* Two leaf top-level cells.
SpaceLeaf(nodeID, count, gcount) ==
  [cdim |-> 2,
   progeny |-> [c \in Cells |-> << >>],
   parent |-> [c \in Cells |-> NULL],
   nodeID |-> nodeID, count |-> count, gcount |-> gcount,
   split |-> [c \in Cells |-> FALSE], small |-> [c \in Cells |-> TRUE]]

\* Top-level cell 1 is split and all its particles are in progeny 3;
\* top-level cell 2 is a leaf.
SpaceSplit(nodeID, count, gcount) ==
  [cdim |-> 2,
   progeny |-> [c \in Cells |-> IF c = 1 THEN <<3>> ELSE << >>],
   parent |-> [c \in Cells |-> IF c = 3 THEN 1 ELSE NULL],
   nodeID |-> nodeID, count |-> count, gcount |-> gcount,
   split |-> [c \in Cells |-> c = 1], small |-> [c \in Cells |-> FALSE]]

(***************************************************************************)
(* Tasks and the scheduler's construction-time state.                      *)
(*   b.tasks     the task array s->tasks (1-based; a task pointer is its   *)
(*               index, NULL = 0)                                          *)
(*   b.unlocks   the unlock buffer: <<unlock_ind[k], unlocks[k]>>          *)
(*   b.cells     the task pointers and links stored in every cell          *)
(***************************************************************************)
NewCellLinks ==
  [sorts |-> NULL, init |-> NULL, ghost |-> NULL, kick |-> NULL,
   grav_up |-> NULL, super |-> NULL, gsuper |-> NULL,
   density |-> << >>, force |-> << >>, nr_tasks |-> 0,
   recv_xv |-> NULL, recv_rho |-> NULL, recv_ti |-> NULL,
   send_xv |-> << >>, send_rho |-> << >>, send_ti |-> << >>]

\* scheduler_reset: an empty task array and unlock buffer
scheduler_reset ==
  [tasks |-> << >>, unlocks |-> << >>, cells |-> [c \in Cells |-> NewCellLinks]]

\* scheduler_addtask: the new task is the last one of the result
scheduler_addtask(b, type, subtype, flags, wait, ci, cj, tight) ==
  [b EXCEPT !.tasks = Append(@,
     [type |-> type, subtype |-> subtype, flags |-> flags, wait |-> wait,
      ci |-> ci, cj |-> cj, skip |-> FALSE, tight |-> tight,
      implicit |-> FALSE, rank |-> 0, unlock_tasks |-> << >>, rid |-> -1])]

LastTask(b) == Len(b.tasks)

\* scheduler_addunlock, one caller at a time: ta unlocks tb
scheduler_addunlock(b, ta, tb) ==
  [b EXCEPT !.unlocks = Append(@, <<ta, tb>>)]

\* engine_addlink: push the task on the front of a cell's link list
engine_addlink(l, t) == <<t>> \o l

(***************************************************************************)
(* engine.c: construction of the task graph.  e is the engine:             *)
(*   e.nodeID, e.policy (a set of policy names), e.s (the space).          *)
(***************************************************************************)
RECURSIVE hydroloop_neighbours(_, _, _, _)
\* the loop over the neighbours cjd = cid + ii of cid, ii = -1, 0, 1
hydroloop_neighbours(e, b, cid, ii) ==
  IF ii > 1 THEN b
  ELSE LET cjd == cid + ii IN
    IF cjd < 1 \/ cjd > e.s.cdim
       \/ cid >= cjd \/ e.s.count[cjd] = 0
       \/ (e.s.nodeID[cid] # e.nodeID /\ e.s.nodeID[cjd] # e.nodeID)
    THEN hydroloop_neighbours(e, b, cid, ii + 1)
    ELSE hydroloop_neighbours(e,
           scheduler_addtask(b, "pair", "density", sid_x, 0, cid, cjd, TRUE),
           cid, ii + 1)

RECURSIVE hydroloop_cells(_, _, _)
hydroloop_cells(e, b, cid) ==
  IF cid > e.s.cdim THEN b
  ELSE IF e.s.count[cid] = 0 THEN hydroloop_cells(e, b, cid + 1)
  ELSE LET b1 == IF e.s.nodeID[cid] = e.nodeID
                 THEN scheduler_addtask(b, "self", "density", 0, 0, cid, NULL,
                                        FALSE)
                 ELSE b
       IN hydroloop_cells(e, hydroloop_neighbours(e, b1, cid, -1), cid + 1)

engine_make_hydroloop_tasks(e, b) == hydroloop_cells(e, b, 1)

\* cells of the row touch when they are next to each other
cell_are_neighbours(ci, cj) == ci - cj \in {-1, 0, 1}

RECURSIVE gravity_pairs(_, _, _, _)
gravity_pairs(e, b, cid, cjd) ==
  IF cjd > e.s.cdim THEN b
  ELSE IF e.s.gcount[cjd] = 0 \/ e.s.nodeID[cjd] # e.nodeID
          \/ ~cell_are_neighbours(cid, cjd)
  THEN gravity_pairs(e, b, cid, cjd + 1)
  ELSE gravity_pairs(e,
         scheduler_addtask(b, "pair", "grav", 0, 0, cid, cjd, TRUE),
         cid, cjd + 1)

RECURSIVE gravity_cells(_, _, _)
gravity_cells(e, b, cid) ==
  IF cid > e.s.cdim THEN b
  ELSE IF e.s.gcount[cid] = 0 \/ e.s.nodeID[cid] # e.nodeID
  THEN gravity_cells(e, b, cid + 1)
  ELSE LET b1 == scheduler_addtask(b, "self", "grav", 0, 0, cid, NULL, FALSE)
           b2 == scheduler_addtask(b1, "grav_mm", "none", 0, 0, cid, NULL,
                                   FALSE)
       IN gravity_cells(e, gravity_pairs(e, b2, cid, cid + 1), cid + 1)

engine_make_gravity_tasks(e, b) == gravity_cells(e, b, 1)

(***************************************************************************)
(* scheduler.c: scheduler_splittask.  The spaces of this model never have  *)
(* two neighbouring cells that are both split, so a pair is never replaced *)
(* by pairs of progeny (the switch over the 13 sort directions).           *)
(***************************************************************************)
\* the sort task of cell c for direction sid is created or extended, and
\* unlocks no task
splittask_sort_no_unlock(b, c, sid, t) ==
  IF b.cells[c].sorts = NULL
  THEN LET ba == scheduler_addtask(b, "sort", "none", 2^sid, 0, c, NULL, FALSE)
       IN [ba EXCEPT !.cells[c].sorts = LastTask(ba)]
  ELSE IF b.cells[c].sorts > Len(b.tasks) THEN b
  ELSE [b EXCEPT !.tasks[b.cells[c].sorts].flags = BitOr(@, 2^sid)]

\* the sort task of cell c for direction sid is created or extended, and
\* unlocks task t
splittask_sort(b, c, sid, t) ==
  LET b1 == IF b.cells[c].sorts = NULL
            THEN LET ba == scheduler_addtask(b, "sort", "none", 2^sid, 0, c,
                                             NULL, FALSE)
                 IN [ba EXCEPT !.cells[c].sorts = LastTask(ba)]
            ELSE IF b.cells[c].sorts > Len(b.tasks)
            \* a pointer left by an earlier build into the part of the
            \* array that scheduler_addtask has yet to fill again
            THEN b
            ELSE [b EXCEPT !.tasks[b.cells[c].sorts].flags = BitOr(@, 2^sid)]
  IN scheduler_addunlock(b1, b1.cells[c].sorts, t)

RECURSIVE scheduler_splittask(_, _, _)
RECURSIVE splittask_selfs(_, _, _, _, _)
RECURSIVE splittask_pairs(_, _, _, _, _, _)

\* self tasks on the progeny after the first one
splittask_selfs(e, b, subtype, prog, k) ==
  IF k > Len(prog) THEN b
  ELSE LET b1 == scheduler_addtask(b, "self", subtype, 0, 0, prog[k], NULL,
                                   FALSE)
       IN splittask_selfs(e, scheduler_splittask(e, b1, LastTask(b1)),
                          subtype, prog, k + 1)

\* a pair task for each pair j < k of progeny
splittask_pairs(e, b, subtype, prog, j, k) ==
  IF j > Len(prog) THEN b
  ELSE IF k > Len(prog) THEN splittask_pairs(e, b, subtype, prog, j + 1, j + 2)
  ELSE LET b1 == scheduler_addtask(b, "pair", subtype, sid_x, 0, prog[j],
                                   prog[k], FALSE)
       IN splittask_pairs(e, scheduler_splittask(e, b1, LastTask(b1)),
                          subtype, prog, j, k + 1)

scheduler_splittask(e, b, t) ==
  LET tk == b.tasks[t]
      ci == tk.ci
      cj == tk.cj
      sp == e.s
  IN
  IF (ci = NULL \/ (tk.type = "pair" /\ cj = NULL))
     \/ (tk.type = "kick" /\ sp.nodeID[ci] # e.nodeID)
     \/ (tk.type = "init" /\ sp.nodeID[ci] # e.nodeID)
  THEN [b EXCEPT !.tasks[t].type = "none", !.tasks[t].skip = TRUE]
  ELSE IF tk.type = "self" THEN
    IF sp.nodeID[ci] # e.nodeID THEN [b EXCEPT !.tasks[t].skip = TRUE]
    ELSE IF sp.split[ci] THEN
      IF sp.small[ci] THEN [b EXCEPT !.tasks[t].type = "sub_self"]
      ELSE LET prog == sp.progeny[ci]
               b1 == [b EXCEPT !.tasks[t].ci = prog[1]]
               b2 == splittask_selfs(e, b1, tk.subtype, prog, 2)
               b3 == splittask_pairs(e, b2, tk.subtype, prog, 1, 2)
           IN scheduler_splittask(e, b3, t)
    ELSE b
  ELSE IF tk.type = "pair" /\ tk.subtype # "grav" THEN
    IF sp.nodeID[ci] # e.nodeID /\ sp.nodeID[cj] # e.nodeID
    THEN [b EXCEPT !.tasks[t].skip = TRUE]
    ELSE IF sp.split[ci] /\ sp.split[cj] THEN
      IF sp.small[ci] THEN [b EXCEPT !.tasks[t].type = "sub_pair"] ELSE b
    ELSE splittask_sort(splittask_sort(b, ci, tk.flags, t), cj, tk.flags, t)
  ELSE IF tk.type = "grav_mm" THEN
    IF sp.gcount[ci] = 0 THEN [b EXCEPT !.tasks[t].type = "none"] ELSE b
  ELSE b

RECURSIVE splittasks_mapper(_, _, _, _)
\* scheduler_splittasks: the mapper runs over the tasks present at the call
splittasks_mapper(e, b, ind, num_elements) ==
  IF ind > num_elements THEN b
  ELSE splittasks_mapper(e, scheduler_splittask(e, b, ind), ind + 1,
                         num_elements)

scheduler_splittasks(e, b) == splittasks_mapper(e, b, 1, Len(b.tasks))

\* engine_count_and_link_tasks, the progeny of a sort task's cell: a
\* progeny's sort task is un-skipped and unlocks the sort task t
RECURSIVE link_sorts(_, _, _, _)
link_sorts(b, t, prog, j) ==
  IF j > Len(prog) THEN b
  ELSE LET ps == b.cells[prog[j]].sorts IN
    IF ps # NULL
    THEN link_sorts(scheduler_addunlock([b EXCEPT !.tasks[ps].skip = FALSE],
                                        ps, t), t, prog, j + 1)
    ELSE link_sorts(b, t, prog, j + 1)

RECURSIVE count_and_link(_, _, _)
count_and_link(e, b, ind) ==
  IF ind > Len(b.tasks) THEN b
  ELSE LET t == b.tasks[ind] IN
    IF t.skip THEN count_and_link(e, b, ind + 1)
    ELSE
      LET b1 == IF t.type = "sort" /\ e.s.split[t.ci]
                THEN link_sorts(b, ind, e.s.progeny[t.ci], 1)
                ELSE b
          b2 == IF t.type \in {"self", "sub_self"}
                THEN [b1 EXCEPT !.cells[t.ci].nr_tasks = @ + 1,
                                !.cells[t.ci].density =
                                   IF t.subtype = "density"
                                   THEN engine_addlink(@, ind) ELSE @]
                ELSE IF t.type \in {"pair", "sub_pair"}
                THEN [b1 EXCEPT !.cells[t.ci].nr_tasks = @ + 1,
                                !.cells[t.cj].nr_tasks = @ + 1,
                                !.cells[t.ci].density =
                                   IF t.subtype = "density"
                                   THEN engine_addlink(@, ind) ELSE @,
                                !.cells[t.cj].density =
                                   IF t.subtype = "density"
                                   THEN engine_addlink(@, ind) ELSE @]
                ELSE b1
      IN count_and_link(e, b2, ind + 1)

engine_count_and_link_tasks(e, b) == count_and_link(e, b, 1)

\* the kick task that matches the policy
KickType(e) == IF "fixdt" \in e.policy THEN "kick_fixdt" ELSE "kick"

\* init and kick of a super cell, created unless the cell has them already
add_init_kick(e, b, c) ==
  LET b1 == IF b.cells[c].init = NULL
            THEN LET ba == scheduler_addtask(b, "init", "none", 0, 0, c, NULL,
                                             FALSE)
                 IN [ba EXCEPT !.cells[c].init = LastTask(ba)]
            ELSE b
  IN IF b1.cells[c].kick = NULL
     THEN LET bb == scheduler_addtask(b1, KickType(e), "none", 0, 0, c, NULL,
                                      FALSE)
          IN [bb EXCEPT !.cells[c].kick = LastTask(bb)]
     ELSE b1

RECURSIVE engine_make_hydro_hierarchical_tasks(_, _, _, _)
RECURSIVE hydro_hierarchical_progeny(_, _, _, _, _)
hydro_hierarchical_progeny(e, b, prog, k, super) ==
  IF k > Len(prog) THEN b
  ELSE hydro_hierarchical_progeny(e,
         engine_make_hydro_hierarchical_tasks(e, b, prog[k], super),
         prog, k + 1, super)

\* the hierarchical tasks made for the super cells of every node
hydro_hierarchical_tasks_any_node(e, b, c, super) ==
  LET is_super == super = NULL /\ (b.cells[c].density # << >>
                                   \/ (e.s.count[c] > 0 /\ ~e.s.split[c]))
      super1 == IF is_super THEN c ELSE super
      b1 == IF is_super
            THEN LET ba == add_init_kick(e, b, c)
                     bb == scheduler_addtask(ba, "ghost", "none", 0, 0, c,
                                             NULL, FALSE)
                 IN [bb EXCEPT !.cells[c].ghost = LastTask(bb)]
            ELSE b
      b2 == [b1 EXCEPT !.cells[c].super = super1]
  IN IF e.s.split[c]
     THEN hydro_hierarchical_progeny(e, b2, e.s.progeny[c], 1, super1)
     ELSE b2

engine_make_hydro_hierarchical_tasks(e, b, c, super) ==
  LET is_super == super = NULL /\ (b.cells[c].density # << >>
                                   \/ (e.s.count[c] > 0 /\ ~e.s.split[c]))
      super1 == IF is_super THEN c ELSE super
      b1 == IF is_super /\ e.s.nodeID[c] = e.nodeID
            THEN LET ba == add_init_kick(e, b, c)
                     bb == scheduler_addtask(ba, "ghost", "none", 0, 0, c,
                                             NULL, FALSE)
                 IN [bb EXCEPT !.cells[c].ghost = LastTask(bb)]
            ELSE b
      b2 == [b1 EXCEPT !.cells[c].super = super1]
  IN IF e.s.split[c]
     THEN hydro_hierarchical_progeny(e, b2, e.s.progeny[c], 1, super1)
     ELSE b2

RECURSIVE engine_make_gravity_hierarchical_tasks(_, _, _, _)
RECURSIVE gravity_hierarchical_progeny(_, _, _, _, _)
gravity_hierarchical_progeny(e, b, prog, k, gsuper) ==
  IF k > Len(prog) THEN b
  ELSE gravity_hierarchical_progeny(e,
         engine_make_gravity_hierarchical_tasks(e, b, prog[k], gsuper),
         prog, k + 1, gsuper)

\* no task is ever linked to c->grav, so the gravity super cell is the
\* first leaf with gravity particles
engine_make_gravity_hierarchical_tasks(e, b, c, gsuper) ==
  LET is_super == gsuper = NULL /\ (~e.s.split[c] /\ e.s.gcount[c] > 0)
      gsuper1 == IF is_super THEN c ELSE gsuper
      b1 == IF is_super /\ e.s.nodeID[c] = e.nodeID
            THEN add_init_kick(e, b, c) ELSE b
      b2 == [b1 EXCEPT !.cells[c].gsuper = gsuper1]
  IN IF e.s.split[c]
     THEN gravity_hierarchical_progeny(e, b2, e.s.progeny[c], 1, gsuper1)
     ELSE b2

RECURSIVE hierarchical_top(_, _, _, _)
\* the loops of engine_maketasks over the top-level cells
hierarchical_top(e, b, k, hydro) ==
  IF k > e.s.cdim THEN b
  ELSE hierarchical_top(e,
         IF hydro THEN engine_make_hydro_hierarchical_tasks(e, b, k, NULL)
         ELSE engine_make_gravity_hierarchical_tasks(e, b, k, NULL),
         k + 1, hydro)

\* the dependencies without the one of the force loop on the ghost
hydro_loops_dependencies_no_ghost(b, density, force, c) ==
  LET sup == b.cells[b.cells[c].super]
      b1 == scheduler_addunlock(b, sup.init, density)
      b2 == scheduler_addunlock(b1, density, sup.ghost)
  IN scheduler_addunlock(b2, force, sup.kick)

\* init --> density loop --> ghost --> force loop --> kick
engine_make_hydro_loops_dependencies(b, density, force, c) ==
  LET sup == b.cells[b.cells[c].super]
      b1 == scheduler_addunlock(b, sup.init, density)
      b2 == scheduler_addunlock(b1, density, sup.ghost)
      b3 == scheduler_addunlock(b2, sup.ghost, force)
  IN scheduler_addunlock(b3, force, sup.kick)

RECURSIVE extra_hydroloop(_, _, _, _)
extra_hydroloop(e, b, ind, nr_tasks) ==
  IF ind > nr_tasks THEN b
  ELSE LET t == b.tasks[ind] IN
    IF t.skip \/ t.subtype # "density"
       \/ t.type \notin {"self", "pair", "sub_self", "sub_pair"}
    THEN extra_hydroloop(e, b, ind + 1, nr_tasks)
    ELSE
      LET paired == t.type \in {"pair", "sub_pair"}
          ba == scheduler_addtask(b, t.type, "force",
                   IF t.type \in {"self", "pair"} THEN 0 ELSE t.flags, 0,
                   t.ci, IF t.type = "self" THEN NULL ELSE t.cj, FALSE)
          t2 == LastTask(ba)
          b1 == [ba EXCEPT !.cells[t.ci].force = engine_addlink(@, t2)]
          b2 == IF paired
                THEN [b1 EXCEPT !.cells[t.cj].force = engine_addlink(@, t2)]
                ELSE b1
          b3 == IF t.type = "self" \/ e.s.nodeID[t.ci] = e.nodeID
                THEN engine_make_hydro_loops_dependencies(b2, ind, t2, t.ci)
                ELSE b2
          b4 == IF paired /\ e.s.nodeID[t.cj] = e.nodeID
                   /\ b3.cells[t.ci].super # b3.cells[t.cj].super
                THEN engine_make_hydro_loops_dependencies(b3, ind, t2, t.cj)
                ELSE b3
      IN extra_hydroloop(e, b4, ind + 1, nr_tasks)

engine_make_extra_hydroloop_tasks(e, b) ==
  extra_hydroloop(e, b, 1, Len(b.tasks))

RECURSIVE engine_addtasks_grav(_, _, _, _)
RECURSIVE addtasks_grav_progeny(_, _, _, _, _)
addtasks_grav_progeny(e, b, prog, k, up) ==
  IF k > Len(prog) THEN b
  ELSE addtasks_grav_progeny(e, engine_addtasks_grav(e, b, prog[k], up),
                             prog, k + 1, up)

engine_addtasks_grav(e, b, c, up) ==
  LET b1 == [b EXCEPT !.cells[c].grav_up = up]
  IN IF e.s.split[c] THEN addtasks_grav_progeny(e, b1, e.s.progeny[c], 1, up)
     ELSE b1

RECURSIVE gravityrecursive(_, _, _)
gravityrecursive(e, b, k) ==
  IF k > e.s.cdim THEN b
  ELSE IF e.s.nodeID[k] = e.nodeID /\ e.s.gcount[k] > 0
  THEN LET b1 == scheduler_addtask(b, "grav_up", "none", 0, 0, k, NULL, FALSE)
       IN gravityrecursive(e, engine_addtasks_grav(e, b1, k, LastTask(b1)),
                           k + 1)
  ELSE gravityrecursive(e, b, k + 1)

engine_make_gravityrecursive_tasks(e, b) == gravityrecursive(e, b, 1)

\* init --> gravity --> kick, grav_up --> gravity
engine_make_gravity_dependencies(b, gravity, c) ==
  LET gsup == b.cells[b.cells[c].gsuper]
      b1 == scheduler_addunlock(b, gsup.init, gravity)
      b2 == scheduler_addunlock(b1, gravity, gsup.kick)
  IN scheduler_addunlock(b2, gsup.grav_up, gravity)

RECURSIVE link_gravity(_, _, _, _, _)
link_gravity(e, b, k, nr_tasks, gather) ==
  IF k > nr_tasks THEN b
  ELSE LET t == b.tasks[k] IN
    IF t.skip THEN link_gravity(e, b, k + 1, nr_tasks, gather)
    ELSE
      LET b1 == IF t.type = "grav_up" THEN scheduler_addunlock(b, k, gather)
                ELSE b
          b2 == IF t.type = "grav_mm"
                THEN LET gsup == b1.cells[b1.cells[t.ci].gsuper]
                         ba == scheduler_addunlock(b1, gather, k)
                         bb == scheduler_addunlock(ba, k, gsup.kick)
                     IN scheduler_addunlock(bb, gsup.init, k)
                ELSE b1
          grav == t.subtype = "grav"
          b3 == IF grav /\ (t.type = "self"
                            \/ (t.type \in {"pair", "sub_self", "sub_pair"}
                                /\ e.s.nodeID[t.ci] = e.nodeID))
                THEN engine_make_gravity_dependencies(b2, k, t.ci)
                ELSE b2
          b4 == IF grav /\ t.type \in {"pair", "sub_pair"}
                   /\ e.s.nodeID[t.cj] = e.nodeID
                   /\ b3.cells[t.ci].gsuper # b3.cells[t.cj].gsuper
                THEN engine_make_gravity_dependencies(b3, k, t.cj)
                ELSE b3
      IN link_gravity(e, b4, k + 1, nr_tasks, gather)

engine_link_gravity_tasks(e, b) ==
  LET nr_tasks == Len(b.tasks)
      b1 == scheduler_addtask(b, "grav_gather_m", "none", 0, 0, NULL, NULL,
                              FALSE)
      gather == LastTask(b1)
      b2 == scheduler_addtask(b1, "grav_fft", "none", 0, 0, NULL, NULL, FALSE)
      fft == LastTask(b2)
  IN link_gravity(e, scheduler_addunlock(b2, gather, fft), 1, nr_tasks, gather)

(***************************************************************************)
(* The tasks that receive and send the cells of a proxy (WITH_MPI).  The   *)
(* tag of a cell is its number.                                            *)
(***************************************************************************)
RECURSIVE recv_density_links(_, _, _, _, _)
recv_density_links(b, l, k, t_xv, t_rho) ==
  IF k > Len(l) THEN b
  ELSE recv_density_links(
         scheduler_addunlock(scheduler_addunlock(b, t_xv, l[k]), l[k], t_rho),
         l, k + 1, t_xv, t_rho)

\* the force tasks of the cell are given no unlock
recv_force_links_none(b, l, k, t_rho, t_ti) == b

RECURSIVE recv_force_links(_, _, _, _, _)
recv_force_links(b, l, k, t_rho, t_ti) ==
  IF k > Len(l) THEN b
  ELSE LET b1 == scheduler_addunlock(b, t_rho, l[k])
       IN recv_force_links(
            IF t_ti # NULL THEN scheduler_addunlock(b1, l[k], t_ti) ELSE b1,
            l, k + 1, t_rho, t_ti)

RECURSIVE engine_addtasks_recv(_, _, _, _, _, _)
RECURSIVE addtasks_recv_progeny(_, _, _, _, _, _, _)
addtasks_recv_progeny(e, b, prog, k, t_xv, t_rho, t_ti) ==
  IF k > Len(prog) THEN b
  ELSE addtasks_recv_progeny(e,
         engine_addtasks_recv(e, b, prog[k], t_xv, t_rho, t_ti),
         prog, k + 1, t_xv, t_rho, t_ti)

engine_addtasks_recv(e, b, c, t_xv, t_rho, t_ti) ==
  LET make == t_xv = NULL /\ b.cells[c].density # << >>
      ba == scheduler_addtask(b, "recv", "none", 4 * c, 0, c, NULL, FALSE)
      bb == scheduler_addtask(ba, "recv", "none", 4 * c + 1, 0, c, NULL, FALSE)
      bc == IF "fixdt" \notin e.policy
            THEN scheduler_addtask(bb, "recv", "tend", 4 * c + 2, 0, c, NULL,
                                   FALSE)
            ELSE bb
      b1 == IF make THEN bc ELSE b
      xv == IF make THEN LastTask(ba) ELSE t_xv
      rho == IF make THEN LastTask(bb) ELSE t_rho
      ti == IF make /\ "fixdt" \notin e.policy THEN LastTask(bc) ELSE t_ti
      b2 == [b1 EXCEPT !.cells[c].recv_xv = xv, !.cells[c].recv_rho = rho,
                       !.cells[c].recv_ti = ti]
      b3 == recv_density_links(b2, b2.cells[c].density, 1, xv, rho)
      b4 == recv_force_links(b3, b3.cells[c].force, 1, rho, ti)
      b5 == IF b4.cells[c].sorts # NULL
            THEN scheduler_addunlock(b4, xv, b4.cells[c].sorts) ELSE b4
  IN IF e.s.split[c]
     THEN addtasks_recv_progeny(e, b5, e.s.progeny[c], 1, xv, rho, ti)
     ELSE b5

RECURSIVE engine_addtasks_send(_, _, _, _, _, _, _)
RECURSIVE addtasks_send_progeny(_, _, _, _, _, _, _, _)
addtasks_send_progeny(e, b, prog, k, cj, t_xv, t_rho, t_ti) ==
  IF k > Len(prog) THEN b
  ELSE addtasks_send_progeny(e,
         engine_addtasks_send(e, b, prog[k], cj, t_xv, t_rho, t_ti),
         prog, k + 1, cj, t_xv, t_rho, t_ti)

\* engine_addtasks_send without the unlock from the kick to the send_ti task
engine_addtasks_send_no_kick(e, b, ci, cj, t_xv, t_rho, t_ti) ==
  LET nodeID == e.s.nodeID[cj]
      found == \E k \in 1..Len(b.cells[ci].density) :
                 LET t == b.tasks[b.cells[ci].density[k]] IN
                   \/ e.s.nodeID[t.ci] = nodeID
                   \/ (t.cj # NULL /\ e.s.nodeID[t.cj] = nodeID)
      make == found /\ t_xv = NULL
      sup == b.cells[b.cells[ci].super]
      ba == scheduler_addtask(b, "send", "none", 4 * ci, 0, ci, cj, FALSE)
      bb == scheduler_addtask(ba, "send", "none", 4 * ci + 1, 0, ci, cj, FALSE)
      bc == IF "fixdt" \notin e.policy
            THEN scheduler_addtask(bb, "send", "tend", 4 * ci + 2, 0, ci, cj,
                                   FALSE)
            ELSE bb
      xv == IF make THEN LastTask(ba) ELSE t_xv
      rho == IF make THEN LastTask(bb) ELSE t_rho
      ti == IF make /\ "fixdt" \notin e.policy THEN LastTask(bc) ELSE t_ti
      bd == scheduler_addunlock(bc, rho, sup.kick)
      be == scheduler_addunlock(bd, sup.ghost, rho)
      bf == scheduler_addunlock(be, xv, sup.ghost)
      b1 == IF make THEN bf ELSE b
      b2 == IF found
            THEN [b1 EXCEPT !.cells[ci].send_xv = engine_addlink(@, xv),
                            !.cells[ci].send_rho = engine_addlink(@, rho),
                            !.cells[ci].send_ti =
                               IF ti # NULL THEN engine_addlink(@, ti) ELSE @]
            ELSE b1
  IN IF e.s.split[ci]
     THEN addtasks_send_progeny(e, b2, e.s.progeny[ci], 1, cj, xv, rho, ti)
     ELSE b2

engine_addtasks_send(e, b, ci, cj, t_xv, t_rho, t_ti) ==
  LET nodeID == e.s.nodeID[cj]
      \* is any of the density tasks of ci for the target node?
      found == \E k \in 1..Len(b.cells[ci].density) :
                 LET t == b.tasks[b.cells[ci].density[k]] IN
                   \/ e.s.nodeID[t.ci] = nodeID
                   \/ (t.cj # NULL /\ e.s.nodeID[t.cj] = nodeID)
      make == found /\ t_xv = NULL
      sup == b.cells[b.cells[ci].super]
      ba == scheduler_addtask(b, "send", "none", 4 * ci, 0, ci, cj, FALSE)
      bb == scheduler_addtask(ba, "send", "none", 4 * ci + 1, 0, ci, cj, FALSE)
      bc == IF "fixdt" \notin e.policy
            THEN scheduler_addtask(bb, "send", "tend", 4 * ci + 2, 0, ci, cj,
                                   FALSE)
            ELSE bb
      xv == IF make THEN LastTask(ba) ELSE t_xv
      rho == IF make THEN LastTask(bb) ELSE t_rho
      ti == IF make /\ "fixdt" \notin e.policy THEN LastTask(bc) ELSE t_ti
      bd == scheduler_addunlock(bc, rho, sup.kick)
      be == scheduler_addunlock(bd, sup.ghost, rho)
      bf == scheduler_addunlock(be, xv, sup.ghost)
      bg == IF ti # NULL THEN scheduler_addunlock(bf, sup.kick, ti) ELSE bf
      b1 == IF make THEN bg ELSE b
      b2 == IF found
            THEN [b1 EXCEPT !.cells[ci].send_xv = engine_addlink(@, xv),
                            !.cells[ci].send_rho = engine_addlink(@, rho),
                            !.cells[ci].send_ti =
                               IF ti # NULL THEN engine_addlink(@, ti) ELSE @]
            ELSE b1
  IN IF e.s.split[ci]
     THEN addtasks_send_progeny(e, b2, e.s.progeny[ci], 1, cj, xv, rho, ti)
     ELSE b2

RECURSIVE proxy_recvs(_, _, _, _)
proxy_recvs(e, b, cells_in, k) ==
  IF k > Len(cells_in) THEN b
  ELSE proxy_recvs(e,
         engine_addtasks_recv(e, b, cells_in[k], NULL, NULL, NULL),
         cells_in, k + 1)

RECURSIVE proxy_sends(_, _, _, _, _)
proxy_sends(e, b, cells_out, cells_in, k) ==
  IF k > Len(cells_out) THEN b
  ELSE proxy_sends(e,
         engine_addtasks_send(e, b, cells_out[k], cells_in[1], NULL, NULL,
                              NULL),
         cells_out, cells_in, k + 1)

RECURSIVE maketasks_proxies(_, _, _)
maketasks_proxies(e, b, pid) ==
  IF pid > Len(e.proxies) THEN b
  ELSE LET p == e.proxies[pid]
           b1 == proxy_recvs(e, b, p.cells_in, 1)
       IN maketasks_proxies(e, proxy_sends(e, b1, p.cells_out, p.cells_in, 1),
                            pid + 1)

(***************************************************************************)
(* scheduler.c: scheduler_set_unlocks and scheduler_ranktasks.             *)
(***************************************************************************)
\* counts[k]: the number of unlocks recorded with task k as their source
unlock_counts(tasks, unlocks) ==
  Array([k \in 1..Len(tasks) |->
           Cardinality({i \in 1..Len(unlocks) : unlocks[i][1] = k})])

\* every block starts at the head of the sorted unlocks
unlock_offsets_zero(counts, k) == 0

RECURSIVE unlock_offsets(_, _)
\* offsets[k]: where the block of task k starts in the sorted unlocks
unlock_offsets(counts, k) ==
  IF k = 1 THEN 0 ELSE unlock_offsets(counts, k - 1) + counts[k - 1]

RECURSIVE unlocks_fill(_, _, _, _)
\* the temporary array with the sorted unlocks, filled in buffer order
unlocks_fill(unlocks, offsets, sorted, k) ==
  IF k > Len(unlocks) THEN sorted
  ELSE LET ind == unlocks[k][1] IN
    unlocks_fill(unlocks, [offsets EXCEPT ![ind] = @ + 1],
                 [sorted EXCEPT ![offsets[ind]] = unlocks[k][2]], k + 1)

scheduler_set_unlocks(tasks, unlocks) ==
  LET counts == unlock_counts(tasks, unlocks)
      offsets == Array([k \in 1..Len(tasks) |-> unlock_offsets(counts, k)])
      sorted == unlocks_fill(unlocks, offsets,
                             [i \in 0..(Len(unlocks) - 1) |-> NULL], 1)
  IN Array([k \in 1..Len(tasks) |->
              [tasks[k] EXCEPT !.unlock_tasks =
                 Array([i \in 1..counts[k] |->
                          sorted[offsets[k] + i - 1]])]])

\* t->unlock_tasks, as an index into s->unlocks, and t->nr_unlock_tasks of
\* every task, as scheduler_set_unlocks sets them
unlock_slices(tasks, unlocks) ==
  LET counts == unlock_counts(tasks, unlocks)
  IN Array([k \in 1..Len(tasks) |->
              [first |-> unlock_offsets(counts, k), count |-> counts[k]]])

\* the number of unlock entries of all tasks that point to task i
InDegree(tasks, i) ==
  LET pairs == {<<k, j>> \in (1..Len(tasks)) \X (1..Len(tasks) * Len(tasks)) :
                  j <= Len(tasks[k].unlock_tasks)}
  IN Cardinality({p \in pairs : tasks[p[1]].unlock_tasks[p[2]] = i})

RECURSIVE rank_initial(_, _, _)
\* the tids of the tasks with no waits, in the order of the task array
rank_initial(tasks, tid, k) ==
  IF k > Len(tasks) THEN tid
  ELSE rank_initial(tasks,
                    IF tasks[k].wait = 0 THEN Append(tid, k) ELSE tid, k + 1)

RECURSIVE rank_unlock(_, _, _)
\* task t of the current layer decrements the waits of the tasks it unlocks
rank_unlock(st, t, k) ==
  IF k > Len(st.tasks[t].unlock_tasks) THEN st
  ELSE LET u == st.tasks[t].unlock_tasks[k]
           w == st.tasks[u].wait - 1
       IN rank_unlock([tasks |-> [st.tasks EXCEPT ![u].wait = w],
                       tid |-> IF w = 0 THEN Append(st.tid, u) ELSE st.tid],
                      t, k + 1)

RECURSIVE rank_layer(_, _, _, _)
rank_layer(st, j, left_old, rank) ==
  IF j > left_old THEN st
  ELSE LET t == st.tid[j]
           st1 == [st EXCEPT !.tasks[t].rank = rank]
       IN rank_layer(rank_unlock(st1, t, 1), j + 1, left_old, rank)

RECURSIVE rank_loop(_, _, _)
\* the main loop: j is the first task of the layer, left = Len(st.tid)
rank_loop(st, j, rank) ==
  IF Len(st.tid) >= Len(st.tasks)
  THEN [tasks |-> st.tasks, tid |-> st.tid, error |-> FALSE]
  ELSE IF j = Len(st.tid) + 1
  THEN [tasks |-> st.tasks, tid |-> st.tid, error |-> TRUE]
  ELSE LET left_old == Len(st.tid)
       IN rank_loop(rank_layer(st, j, left_old, rank), left_old + 1, rank + 1)

\* the ranking without the first loop, which gets the waits right
ranktasks_without_waits(tasks) ==
  rank_loop([tasks |-> tasks, tid |-> rank_initial(tasks, << >>, 1)], 1, 0)

\* error: "Unsatisfiable task dependencies detected."
scheduler_ranktasks(tasks) ==
  LET waits == Array([i \in 1..Len(tasks) |->
                        [tasks[i] EXCEPT !.wait = @ + InDegree(tasks, i)]])
  IN rank_loop([tasks |-> waits, tid |-> rank_initial(waits, << >>, 1)], 1, 0)

(***************************************************************************)
(* engine.c: engine_maketasks.                                             *)
(***************************************************************************)
\* if (e->policy & policy) step(e)
with_policy(e, policy, b, step(_, _)) ==
  IF policy \in e.policy THEN step(e, b) ELSE b

\* the loops of engine_maketasks over the top-level cells and the proxies
hydro_hierarchical_tasks(e, b) == hierarchical_top(e, b, 1, TRUE)
gravity_hierarchical_tasks(e, b) == hierarchical_top(e, b, 1, FALSE)
proxies_tasks(e, b) == maketasks_proxies(e, b, 1)

\* engine_maketasks up to the communication tasks, on the scheduler b0
maketasks_on(e, b0) ==
  with_policy(e, "mpi",
    with_policy(e, "self_gravity",
      with_policy(e, "hydro",
        with_policy(e, "self_gravity",
          with_policy(e, "hydro",
            with_policy(e, "hydro",
              with_policy(e, "self_gravity",
                scheduler_splittasks(e,
                  with_policy(e, "self_gravity",
                    with_policy(e, "hydro", b0,
                                engine_make_hydroloop_tasks),
                    engine_make_gravity_tasks)),
                engine_make_gravityrecursive_tasks),
              engine_count_and_link_tasks),
            hydro_hierarchical_tasks),
          gravity_hierarchical_tasks),
        engine_make_extra_hydroloop_tasks),
      engine_link_gravity_tasks),
    proxies_tasks)

\* engine_maketasks after space_rebuild, which has cleared the cells
maketasks_built(e) == maketasks_on(e, scheduler_reset)

\* the graph that engine_maketasks leaves: the tasks with their unlocks and
\* ranks, s->tasks_ind and the links of the cells to their tasks
maketasks_result(links, ranked) ==
  [tasks |-> ranked.tasks, tasks_ind |-> ranked.tid, cells |-> links,
   error |-> ranked.error]

maketasks_ranked(b) ==
  maketasks_result(b.cells,
    scheduler_ranktasks(scheduler_set_unlocks(b.tasks, b.unlocks)))

engine_maketasks(e) == maketasks_ranked(maketasks_built(e))

\* engine_maketasks on cells that hold what an earlier build left in them:
\* scheduler_reset empties the task array and the unlocks only
maketasks_again(e, links) ==
  LET b == maketasks_on(e, [scheduler_reset EXCEPT !.cells = links])
  IN IF \E k \in 1..Len(b.unlocks) :
          b.unlocks[k][1] > Len(b.tasks) \/ b.unlocks[k][2] > Len(b.tasks)
     \* an unlock through a pointer left by an earlier build names a slot
     \* after the last task: scheduler_set_unlocks counts it outside its
     \* counts array, and the build ends here
     THEN maketasks_result(b.cells,
                           [tasks |-> b.tasks, tid |-> << >>, error |-> TRUE])
     ELSE maketasks_ranked(b)

(***************************************************************************)
(* engine.c: engine_marktasks.  active[c] says that cell c has a particle  *)
(* that ends its time step now (c->ti_end_min <= ti_current); sorted[c] is *)
(* c->sorted.                                                              *)
(***************************************************************************)
\* engine_marktasks_fixdt_mapper: a sort all of whose directions are sorted
\* becomes implicit
engine_marktasks_fixdt(tasks, sorted) ==
  Array([i \in 1..Len(tasks) |->
           IF tasks[i].type = "sort"
              /\ BitAndNot(tasks[i].flags, sorted[tasks[i].ci]) = 0
           THEN [tasks[i] EXCEPT !.implicit = TRUE]
           ELSE tasks[i]])

\* engine_marktasks_sorts_mapper, then all sends and recvs are skipped
engine_marktasks_sorts(e, tasks) ==
  Array([i \in 1..Len(tasks) |->
           IF tasks[i].type = "sort"
           THEN [tasks[i] EXCEPT !.flags = 0, !.skip = TRUE]
           ELSE IF "mpi" \in e.policy /\ tasks[i].type \in {"send", "recv"}
           THEN [tasks[i] EXCEPT !.skip = TRUE]
           ELSE tasks[i]])

\* the sort task of cell c is flagged for direction sid unless c is sorted
mark_sort(tasks, links, sorted, c, sid) ==
  IF sid \notin BitSet(sorted[c])
  THEN [tasks EXCEPT ![links[c].sorts].flags = BitOr(@, 2^sid),
                     ![links[c].sorts].skip = FALSE]
  ELSE tasks

\* the first send task of the list that goes to the given node is activated
\* (error "Missing link to send task." when there is none)
mark_send(e, tasks, l, nodeID) ==
  LET found == {k \in 1..Len(l) : e.s.nodeID[tasks[l[k]].cj] = nodeID}
  IN IF found = {} THEN tasks
     ELSE LET k == CHOOSE x \in found : \A y \in found : x <= y
          IN [tasks EXCEPT ![l[k]].skip = FALSE]

\* the recv tasks of the foreign cell cf and the send tasks of the local
\* cell cl of a pair are activated
mark_mpi(e, tasks, links, cf, cl) ==
  LET t1 == [tasks EXCEPT ![links[cf].recv_xv].skip = FALSE,
                          ![links[cf].recv_rho].skip = FALSE,
                          ![links[cf].recv_ti].skip = FALSE]
      t2 == mark_send(e, t1, links[cl].send_xv, e.s.nodeID[cf])
      t3 == mark_send(e, t2, links[cl].send_rho, e.s.nodeID[cf])
  IN mark_send(e, t3, links[cl].send_ti, e.s.nodeID[cf])

RECURSIVE engine_marktasks_mapper(_, _, _, _, _, _)
engine_marktasks_mapper(e, tasks, links, active, sorted, ind) ==
  IF ind > Len(tasks) THEN tasks
  ELSE LET t == tasks[ind] IN
    IF t.type \in {"self", "ghost", "sub_self", "kick", "init"}
    THEN engine_marktasks_mapper(e,
           [tasks EXCEPT ![ind].skip = ~active[t.ci]],
           links, active, sorted, ind + 1)
    ELSE IF t.type \in {"pair", "sub_pair"}
    THEN LET skip == ~active[t.ci] /\ ~active[t.cj]
             t1 == [tasks EXCEPT ![ind].skip = skip]
             t2 == IF ~skip /\ t.type = "pair" /\ t.subtype # "grav"
                   THEN mark_sort(mark_sort(t1, links, sorted, t.ci, t.flags),
                                  links, sorted, t.cj, t.flags)
                   ELSE t1
             t3 == IF skip \/ "mpi" \notin e.policy THEN t2
                   ELSE IF e.s.nodeID[t.ci] # engine_rank
                   THEN mark_mpi(e, t2, links, t.ci, t.cj)
                   ELSE IF e.s.nodeID[t.cj] # engine_rank
                   THEN mark_mpi(e, t2, links, t.cj, t.ci)
                   ELSE t2
         IN engine_marktasks_mapper(e, t3, links, active, sorted, ind + 1)
    ELSE IF t.type = "none"
    THEN engine_marktasks_mapper(e, [tasks EXCEPT ![ind].skip = TRUE],
                                 links, active, sorted, ind + 1)
    ELSE engine_marktasks_mapper(e, tasks, links, active, sorted, ind + 1)

engine_marktasks(e, tasks, links, active, sorted) ==
  IF "fixdt" \in e.policy THEN engine_marktasks_fixdt(tasks, sorted)
  ELSE engine_marktasks_mapper(e, engine_marktasks_sorts(e, tasks), links,
                               active, sorted, 1)

(***************************************************************************)
(* The cell lock protocol (cell.c is not part of the sources; modelled     *)
(* from the description of the lock protocol).  A cell carries a           *)
(* parts-lock with its hold counter and a gparts-lock with its ghold       *)
(* counter.  The lock functions return 0 on success as in C.               *)
(***************************************************************************)
RECURSIVE Ancestors(_, _)
Ancestors(s, c) ==
  IF s.parent[c] = NULL THEN {}
  ELSE {s.parent[c]} \cup Ancestors(s, s.parent[c])

cell_locktree(s, cells, c) ==
  IF cells[c].hold # 0 \/ cells[c].lock = 1
     \/ \E a \in Ancestors(s, c) : cells[a].lock = 1
  THEN [res |-> 1, cells |-> cells]
  ELSE [res |-> 0,
        cells |-> [x \in DOMAIN cells |->
                     IF x = c THEN [cells[x] EXCEPT !.lock = 1]
                     ELSE IF x \in Ancestors(s, c)
                     THEN [cells[x] EXCEPT !.hold = @ + 1]
                     ELSE cells[x]]]

cell_unlocktree(s, cells, c) ==
  [x \in DOMAIN cells |->
     IF x = c THEN [cells[x] EXCEPT !.lock = 0]
     ELSE IF x \in Ancestors(s, c) THEN [cells[x] EXCEPT !.hold = @ - 1]
     ELSE cells[x]]

cell_glocktree(s, cells, c) ==
  IF cells[c].ghold # 0 \/ cells[c].glock = 1
     \/ \E a \in Ancestors(s, c) : cells[a].glock = 1
  THEN [res |-> 1, cells |-> cells]
  ELSE [res |-> 0,
        cells |-> [x \in DOMAIN cells |->
                     IF x = c THEN [cells[x] EXCEPT !.glock = 1]
                     ELSE IF x \in Ancestors(s, c)
                     THEN [cells[x] EXCEPT !.ghold = @ + 1]
                     ELSE cells[x]]]

cell_gunlocktree(s, cells, c) ==
  [x \in DOMAIN cells |->
     IF x = c THEN [cells[x] EXCEPT !.glock = 0]
     ELSE IF x \in Ancestors(s, c) THEN [cells[x] EXCEPT !.ghold = @ - 1]
     ELSE cells[x]]

(***************************************************************************)
(* task.c: task_lock and task_unlock.  rq is the state of the MPI request  *)
(* of the task, MPI_Test succeeds once the request has completed.          *)
(***************************************************************************)
\* task_lock that keeps the first cell of a pair when the second is taken
task_lock_keeps_first(s, cells, t, rq) ==
  IF t.type \in {"recv", "send"}
  THEN [res |-> IF rq = "done" THEN 1 ELSE 0, cells |-> cells]
  ELSE IF t.type = "sort"
  THEN LET l == cell_locktree(s, cells, t.ci)
       IN [res |-> IF l.res # 0 THEN 0 ELSE 1, cells |-> l.cells]
  ELSE IF t.type \in {"self", "sub_self"}
  THEN LET l == IF t.subtype = "grav" THEN cell_glocktree(s, cells, t.ci)
                ELSE cell_locktree(s, cells, t.ci)
       IN [res |-> IF l.res # 0 THEN 0 ELSE 1, cells |-> l.cells]
  ELSE IF t.type \in {"pair", "sub_pair"}
  THEN IF t.subtype = "grav"
       THEN IF cells[t.ci].ghold # 0 \/ cells[t.cj].ghold # 0
            THEN [res |-> 0, cells |-> cells]
            ELSE LET li == cell_glocktree(s, cells, t.ci)
                     lj == cell_glocktree(s, li.cells, t.cj)
                 IN IF li.res # 0 THEN [res |-> 0, cells |-> li.cells]
                    ELSE IF lj.res # 0 THEN [res |-> 0, cells |-> lj.cells]
                    ELSE [res |-> 1, cells |-> lj.cells]
       ELSE IF cells[t.ci].hold # 0 \/ cells[t.cj].hold # 0
            THEN [res |-> 0, cells |-> cells]
            ELSE LET li == cell_locktree(s, cells, t.ci)
                     lj == cell_locktree(s, li.cells, t.cj)
                 IN IF li.res # 0 THEN [res |-> 0, cells |-> li.cells]
                    ELSE IF lj.res # 0 THEN [res |-> 0, cells |-> lj.cells]
                    ELSE [res |-> 1, cells |-> lj.cells]
  ELSE IF t.type = "grav_mm"
  THEN [res |-> 1, cells |-> cell_glocktree(s, cells, t.ci).cells]
  ELSE [res |-> 1, cells |-> cells]

task_lock(s, cells, t, rq) ==
  IF t.type \in {"recv", "send"}
  THEN [res |-> IF rq = "done" THEN 1 ELSE 0, cells |-> cells]
  ELSE IF t.type = "sort"
  THEN LET l == cell_locktree(s, cells, t.ci)
       IN [res |-> IF l.res # 0 THEN 0 ELSE 1, cells |-> l.cells]
  ELSE IF t.type \in {"self", "sub_self"}
  THEN LET l == IF t.subtype = "grav" THEN cell_glocktree(s, cells, t.ci)
                ELSE cell_locktree(s, cells, t.ci)
       IN [res |-> IF l.res # 0 THEN 0 ELSE 1, cells |-> l.cells]
  ELSE IF t.type \in {"pair", "sub_pair"}
  THEN IF t.subtype = "grav"
       THEN IF cells[t.ci].ghold # 0 \/ cells[t.cj].ghold # 0
            THEN [res |-> 0, cells |-> cells]
            ELSE LET li == cell_glocktree(s, cells, t.ci)
                     lj == cell_glocktree(s, li.cells, t.cj)
                 IN IF li.res # 0 THEN [res |-> 0, cells |-> li.cells]
                    ELSE IF lj.res # 0
                    THEN [res |-> 0,
                          cells |-> cell_gunlocktree(s, lj.cells, t.ci)]
                    ELSE [res |-> 1, cells |-> lj.cells]
       ELSE IF cells[t.ci].hold # 0 \/ cells[t.cj].hold # 0
            THEN [res |-> 0, cells |-> cells]
            ELSE LET li == cell_locktree(s, cells, t.ci)
                     lj == cell_locktree(s, li.cells, t.cj)
                 IN IF li.res # 0 THEN [res |-> 0, cells |-> li.cells]
                    ELSE IF lj.res # 0
                    THEN [res |-> 0,
                          cells |-> cell_unlocktree(s, lj.cells, t.ci)]
                    ELSE [res |-> 1, cells |-> lj.cells]
  ELSE IF t.type = "grav_mm"
  THEN [res |-> 1, cells |-> cell_glocktree(s, cells, t.ci).cells]
  ELSE [res |-> 1, cells |-> cells]

\* the cells whose lock task_lock would try to get, lowest address first
task_lock_order_by_pointer(s, cells, t) ==
  IF t.type \in {"sort", "self", "sub_self", "grav_mm"} THEN <<t.ci>>
  ELSE IF t.type \in {"pair", "sub_pair"}
  THEN IF t.ci < t.cj THEN <<t.ci, t.cj>> ELSE <<t.cj, t.ci>>
  ELSE << >>

\* the cells on which task_lock calls cell_locktree or cell_glocktree, in
\* the order of the calls
task_lock_order(s, cells, t) ==
  IF t.type \in {"sort", "self", "sub_self", "grav_mm"} THEN <<t.ci>>
  ELSE IF t.type \in {"pair", "sub_pair"}
  THEN IF t.subtype = "grav"
       THEN IF cells[t.ci].ghold # 0 \/ cells[t.cj].ghold # 0 THEN << >>
            ELSE IF cell_glocktree(s, cells, t.ci).res # 0 THEN <<t.ci>>
            ELSE <<t.ci, t.cj>>
       ELSE IF cells[t.ci].hold # 0 \/ cells[t.cj].hold # 0 THEN << >>
            ELSE IF cell_locktree(s, cells, t.ci).res # 0 THEN <<t.ci>>
            ELSE <<t.ci, t.cj>>
  ELSE << >>

task_unlock(s, cells, t) ==
  IF t.type = "sort" THEN cell_unlocktree(s, cells, t.ci)
  ELSE IF t.type \in {"self", "sub_self"}
  THEN IF t.subtype = "grav" THEN cell_gunlocktree(s, cells, t.ci)
       ELSE cell_unlocktree(s, cells, t.ci)
  ELSE IF t.type \in {"pair", "sub_pair"}
  THEN IF t.subtype = "grav"
       THEN cell_gunlocktree(s, cell_gunlocktree(s, cells, t.ci), t.cj)
       ELSE cell_unlocktree(s, cell_unlocktree(s, cells, t.ci), t.cj)
  ELSE IF t.type = "grav_mm" THEN cell_gunlocktree(s, cells, t.ci)
  ELSE cells

(***************************************************************************)
(* scheduler.c: the run-time operations.  They act on a scheduler state    *)
(* st = [tasks, queues, waiting, req, err]: the task array, the queues     *)
(* (each a bag of task indices), the counter of tasks waiting or running,  *)
(* the MPI requests of the tasks and the message of the error() that       *)
(* aborted the program ("" when there was none).                           *)
(***************************************************************************)
\* the test of the mask alone, without the submask
in_masks_type(sc, t) == t.type \in sc.mask

in_masks(sc, t) == t.type \in sc.mask /\ t.subtype \in sc.submask

\* queue.c is not part of the sources: a queue holds the inserted tasks
queue_insert(q, t) == q (+) SetToBag({t})

\* the tasks that a call of scheduler_enqueue on t can insert in a queue
RECURSIVE enqueue_reach(_, _)
enqueue_reach(tasks, t) ==
  IF tasks[t].implicit
  THEN UNION {enqueue_reach(tasks, tasks[t].unlock_tasks[j]) :
                j \in 1..Len(tasks[t].unlock_tasks)}
  ELSE {t}

\* the loop of an implicit task that decrements the waits and enqueues no
\* task
RECURSIVE enqueue_implicit_decrements(_, _, _, _, _)
enqueue_implicit_decrements(sc, st, t, j, qsel) ==
  IF j > Len(st.tasks[t].unlock_tasks) \/ st.err # "" THEN st
  ELSE enqueue_implicit_decrements(sc,
         [st EXCEPT !.tasks[st.tasks[t].unlock_tasks[j]].wait = @ - 1],
         t, j + 1, qsel)

RECURSIVE scheduler_enqueue(_, _, _, _)
RECURSIVE enqueue_implicit(_, _, _, _, _)
\* the loop of an implicit task over the tasks it unlocks
enqueue_implicit(sc, st, t, j, qsel) ==
  IF j > Len(st.tasks[t].unlock_tasks) \/ st.err # "" THEN st
  ELSE LET t2 == st.tasks[t].unlock_tasks[j]
           res == st.tasks[t2].wait
           st1 == [st EXCEPT !.tasks[t2].wait = @ - 1]
       IN enqueue_implicit(sc,
            IF res = 1 THEN scheduler_enqueue(sc, st1, t2, qsel) ELSE st1,
            t, j + 1, qsel)

\* sc = [mask, submask, nr_queues, with_mpi]; qsel[t] is the queue that the
\* owner of the cells or rand() selects for task t
scheduler_enqueue(sc, st, t, qsel) ==
  LET tk == st.tasks[t] IN
  IF tk.rid >= 0
  THEN [st EXCEPT !.err = "Task has already been enqueued."]
  ELSE IF tk.skip \/ ~in_masks(sc, tk) THEN st
  ELSE IF tk.implicit THEN enqueue_implicit(sc, st, t, 1, qsel)
  ELSE IF tk.type \in {"recv", "send"} /\ ~sc.with_mpi
  THEN [st EXCEPT !.err = "SWIFT was not compiled with MPI support."]
  ELSE LET qid == IF tk.type = "recv" THEN 1 % sc.nr_queues
                  ELSE IF tk.type = "send" THEN 0
                  ELSE qsel[t]
       IN [st EXCEPT !.req[t] = IF tk.type \in {"recv", "send"}
                                THEN "posted" ELSE @,
                     !.waiting = @ + 1,
                     !.queues[qid] = queue_insert(@, t)]

\* a rewait that never increments a wait
scheduler_rewait_none(sc, tasks, ind, err) == [tasks |-> tasks, err |-> err]

\* a rewait that passes over the skipped tasks only, not over those outside
\* the masks
RECURSIVE scheduler_rewait_unmasked(_, _, _, _)
scheduler_rewait_unmasked(sc, tasks, ind, err) ==
  IF ind > Len(tasks) \/ err # "" THEN [tasks |-> tasks, err |-> err]
  ELSE LET t == tasks[ind] IN
    IF t.skip
    THEN scheduler_rewait_unmasked(sc, tasks, ind + 1, err)
    ELSE IF t.type = "sort" /\ t.flags = 0
    THEN [tasks |-> tasks, err |-> "Empty sort task encountered."]
    ELSE scheduler_rewait_unmasked(sc,
           Array([u \in 1..Len(tasks) |->
              [tasks[u] EXCEPT !.wait = @ + Cardinality(
                 {k \in 1..Len(t.unlock_tasks) : t.unlock_tasks[k] = u})]]),
           ind + 1, err)

\* the rewait that does not pass over the tasks marked skip
RECURSIVE scheduler_rewait_skipped(_, _, _, _)
scheduler_rewait_skipped(sc, tasks, ind, err) ==
  IF ind > Len(tasks) \/ err # "" THEN [tasks |-> tasks, err |-> err]
  ELSE LET t == tasks[ind] IN
    IF ~in_masks(sc, t)
    THEN scheduler_rewait_skipped(sc, tasks, ind + 1, err)
    ELSE IF t.type = "sort" /\ t.flags = 0
    THEN [tasks |-> tasks, err |-> "Empty sort task encountered."]
    ELSE scheduler_rewait_skipped(sc,
           Array([u \in 1..Len(tasks) |->
              [tasks[u] EXCEPT !.wait = @ + Cardinality(
                 {k \in 1..Len(t.unlock_tasks) : t.unlock_tasks[k] = u})]]),
           ind + 1, err)

\* scheduler_start up to the end of scheduler_rewait_mapper
RECURSIVE scheduler_rewait(_, _, _, _)
scheduler_rewait(sc, tasks, ind, err) ==
  IF ind > Len(tasks) \/ err # "" THEN [tasks |-> tasks, err |-> err]
  ELSE LET t == tasks[ind] IN
    IF t.skip \/ ~in_masks(sc, t)
    THEN scheduler_rewait(sc, tasks, ind + 1, err)
    ELSE IF t.type = "sort" /\ t.flags = 0
    THEN [tasks |-> tasks, err |-> "Empty sort task encountered."]
    ELSE scheduler_rewait(sc,
           Array([u \in 1..Len(tasks) |->
              [tasks[u] EXCEPT !.wait = @ + Cardinality(
                 {k \in 1..Len(t.unlock_tasks) : t.unlock_tasks[k] = u})]]),
           ind + 1, err)

\* scheduler_start that clears the waits to 0
scheduler_start_no_sentinel(sc, tasks) ==
  scheduler_rewait(sc,
    Array([k \in 1..Len(tasks) |->
             [tasks[k] EXCEPT !.wait = 0, !.rid = -1]]),
    1, "")

scheduler_start(sc, tasks) ==
  scheduler_rewait(sc,
    Array([k \in 1..Len(tasks) |->
             [tasks[k] EXCEPT !.wait = 1, !.rid = -1]]),
    1, "")

\* one iteration of the loop of scheduler_enqueue_mapper
scheduler_enqueue_mapper(sc, st, t, qsel) ==
  LET res == st.tasks[t].wait
      st1 == [st EXCEPT !.tasks[t].wait = @ - 1]
  IN IF res = 1 /\ ~st.tasks[t].skip /\ in_masks(sc, st.tasks[t])
     THEN scheduler_enqueue(sc, st1, t, qsel)
     ELSE st1

\* the loop of scheduler_done over the tasks that t unlocks
RECURSIVE done_unlocks(_, _, _, _, _)
done_unlocks(sc, st, t, k, qsel) ==
  IF k > Len(st.tasks[t].unlock_tasks) \/ st.err # "" THEN st
  ELSE LET t2 == st.tasks[t].unlock_tasks[k]
           res == st.tasks[t2].wait
           st1 == [st EXCEPT !.tasks[t2].wait = @ - 1]
       IN done_unlocks(sc,
            IF res < 1 THEN [st1 EXCEPT !.err = "Negative wait!"]
            ELSE IF res = 1 THEN scheduler_enqueue(sc, st1, t2, qsel)
            ELSE st1,
            t, k + 1, qsel)

\* the tasks that scheduler_done of t can insert in a queue
done_reach(tasks, t) ==
  UNION {enqueue_reach(tasks, tasks[t].unlock_tasks[k]) :
           k \in 1..Len(tasks[t].unlock_tasks)}

(***************************************************************************)
(* The engines that are launched.                                          *)
(***************************************************************************)
\* hydrodynamics on one node, top-level cell 1 split
EngineHydro ==
  [nodeID |-> engine_rank, policy |-> {"hydro"}, proxies |-> << >>,
   s |-> SpaceSplit([c \in Cells |-> engine_rank], [c \in Cells |-> 1],
                    [c \in Cells |-> 0])]

\* hydrodynamics on two nodes: cell 2 belongs to node 1, its particles are
\* received and those of cell 1 are sent
EngineMPI ==
  [nodeID |-> engine_rank, policy |-> {"hydro", "mpi"},
   proxies |-> <<[cells_in |-> <<2>>, cells_out |-> <<1>>]>>,
   s |-> SpaceLeaf([c \in Cells |-> IF c = 2 THEN 1 ELSE engine_rank],
                   [c \in Cells |-> 1], [c \in Cells |-> 0])]

\* self-gravity on one node
EngineGravity ==
  [nodeID |-> engine_rank, policy |-> {"self_gravity"}, proxies |-> << >>,
   s |-> SpaceLeaf([c \in Cells |-> engine_rank], [c \in Cells |-> 0],
                   [c \in Cells |-> 1])]

\* engine_init_particles: the masks of the initialisation launch
init_mask(e) ==
  [mask |-> {"sort", "init"}
       \cup (IF "hydro" \in e.policy
             THEN {"self", "pair", "sub_self", "sub_pair", "ghost"} ELSE {})
       \cup (IF "self_gravity" \in e.policy
             THEN {"grav_up", "grav_mm", "grav_gather_m", "grav_fft", "self",
                   "pair", "sub_self", "sub_pair"} ELSE {})
       \cup (IF "mpi" \in e.policy THEN {"send", "recv"} ELSE {}),
   submask |-> (IF "hydro" \in e.policy THEN {"density"} ELSE {})
       \cup (IF "self_gravity" \in e.policy THEN {"grav"} ELSE {})
       \cup (IF "mpi" \in e.policy THEN {"tend"} ELSE {})]

\* engine_step: the masks of the launch of a time step
step_mask(e) ==
  [mask |-> {"sort", "init", KickType(e)}
       \cup (IF "hydro" \in e.policy
             THEN {"self", "pair", "sub_self", "sub_pair", "ghost"} ELSE {})
       \cup (IF "self_gravity" \in e.policy
             THEN {"grav_up", "grav_mm", "grav_gather_m", "grav_fft", "self",
                   "pair", "sub_self", "sub_pair"} ELSE {})
       \cup (IF "mpi" \in e.policy THEN {"send", "recv"} ELSE {}),
   submask |-> (IF "hydro" \in e.policy THEN {"density", "force"} ELSE {})
       \cup (IF "self_gravity" \in e.policy THEN {"grav"} ELSE {})
       \cup (IF "mpi" \in e.policy THEN {"tend"} ELSE {})]

(***************************************************************************)
(* The launch of the runners on the task graph of an engine.               *)
(***************************************************************************)
VARIABLES
  call,         \* a function of the program that is called on its own: its
                \* arguments and, once it has returned, its result
  e,            \* the engine: policy, space, proxies, build and threads
  args,         \* the arguments of engine_launch: nr_runners, mask, submask
  cells,        \* per cell: the links to its tasks, lock, hold, glock,
                \* ghold and sorted
  tasks,        \* s->tasks
  tasks_ind,    \* s->tasks_ind
  queues,       \* s->queues: per queue the bag of the inserted tasks
  waiting,      \* s->waiting
  masks,        \* s->mask and s->submask
  req,          \* the MPI request of each task: "none", "posted" or "done"
  err,          \* the message of the error() that aborted the program
  barrier,      \* e->barrier_running, barrier_launch, barrier_launchcount
  sleep_mutex,  \* the runner that holds s->sleep_mutex between two steps,
                \* or NoThread
  runners,      \* per runner: where it is, the task it has and how often
                \* it has passed the barrier
  main,         \* where the thread that calls engine_launch is
  hist          \* per task: how often it was started and finished

launch_vars == <<e, args, cells, tasks, tasks_ind, queues, waiting, masks,
                 req, err, barrier, sleep_mutex, runners, main, hist>>

vars == <<call, launch_vars>>

NoThread == -1

\* no function is called on its own
NoCall == [op |-> "none"]

\* the runners of the engine and the queues of its scheduler
Runners == 0..(e.nr_threads - 1)
Queues == 0..(e.nr_queues - 1)

\* engine_init: the queue of runner k
runner_qid(k) == (k * e.nr_queues) \div e.nr_threads

\* the directions that the pairs of these spaces need: that of the density
\* pair and direction 0, the flags of the force pair
AllSorted == 2^sid_x + 2^0

EngineHydroFixdt == [EngineHydro EXCEPT !.policy = @ \cup {"fixdt"}]

(***************************************************************************)
(* Besides the graphs of the engines, the scheduler is given every graph   *)
(* of MaxTasks tasks whose unlocks go from a task to a later one: self     *)
(* tasks on the two cells of a space of leaves, so that tasks 1 and 3 need *)
(* the same cell.  In a build with MPI the last task is a recv task.       *)
(***************************************************************************)
EngineDag ==
  [nodeID |-> engine_rank, policy |-> {"hydro"}, proxies |-> << >>,
   s |-> SpaceLeaf([c \in Cells |-> engine_rank], [c \in Cells |-> 1],
                   [c \in Cells |-> 0])]

EngineDagMPI == [EngineDag EXCEPT !.policy = @ \cup {"mpi"}]
EngineDagSorts == [EngineDag EXCEPT !.policy = @ \cup {"fixdt"}]

DagEdges == {<<i, j>> \in (1..MaxTasks) \X (1..MaxTasks) : i < j}

RECURSIVE dag_tasks(_, _, _)
dag_tasks(b, i, with_mpi) ==
  IF i > MaxTasks THEN b
  ELSE dag_tasks(IF with_mpi /\ i = MaxTasks
                 THEN scheduler_addtask(b, "recv", "none", i, 0, 1 + (i % 2),
                                        NULL, FALSE)
                 ELSE scheduler_addtask(b, "self", "density", 0, 0,
                                        1 + (i % 2), NULL, FALSE),
                 i + 1, with_mpi)

RECURSIVE dag_unlocks(_, _, _)
dag_unlocks(b, edges, k) ==
  IF k > MaxTasks * MaxTasks THEN b
  ELSE LET i == ((k - 1) \div MaxTasks) + 1
           j == ((k - 1) % MaxTasks) + 1
       IN dag_unlocks(IF <<i, j>> \in edges THEN scheduler_addunlock(b, i, j)
                      ELSE b, edges, k + 1)

\* graphs of MaxTasks + 1 tasks in which tasks 2 and 3 are the sort tasks of
\* the two cells, between a self task that may unlock them and one that they
\* may unlock
SortEdges == <<<<1, 2>>, <<1, 3>>, <<2, 3>>, <<2, 4>>, <<3, 4>>>>

RECURSIVE dag_sort_tasks(_, _)
dag_sort_tasks(b, i) ==
  IF i > MaxTasks + 1 THEN b
  ELSE dag_sort_tasks(IF i \in {2, 3}
                      THEN scheduler_addtask(b, "sort", "none", 2^sid_x, 0,
                                             1 + (i % 2), NULL, FALSE)
                      ELSE scheduler_addtask(b, "self", "density", 0, 0,
                                             1 + (i % 2), NULL, FALSE),
                      i + 1)

RECURSIVE dag_sort_unlocks(_, _, _)
dag_sort_unlocks(b, edges, k) ==
  IF k > Len(SortEdges) THEN b
  ELSE dag_sort_unlocks(IF SortEdges[k] \in edges
                        THEN scheduler_addunlock(b, SortEdges[k][1],
                                                 SortEdges[k][2])
                        ELSE b, edges, k + 1)

GraphSorts(edges) ==
  maketasks_ranked(dag_sort_unlocks(dag_sort_tasks(scheduler_reset, 1),
                                    edges, 1))

GraphDag(edges, with_mpi) ==
  maketasks_ranked(dag_unlocks(dag_tasks(scheduler_reset, 1, with_mpi),
                               edges, 1))

Engine(name) ==
  CASE name = "hydro" -> EngineHydro
    [] name = "hydro_fixdt" -> EngineHydroFixdt
    [] name = "mpi" -> EngineMPI
    [] name = "gravity" -> EngineGravity
    [] name = "dag" -> EngineDag
    [] name = "dag_mpi" -> EngineDagMPI
    [] name = "dag_sorts" -> EngineDagSorts

IsDag(l) == l.engine \in {"dag", "dag_mpi", "dag_sorts"}

\* engine_rebuild: the task graph of the launch
Graph(l) ==
  IF l.engine = "dag_sorts" THEN GraphSorts(l.edges)
  ELSE IF IsDag(l) THEN GraphDag(l.edges, l.with_mpi)
  ELSE engine_maketasks(Engine(l.engine))

\* A launch: the engine, the build, the top-level cells with a particle that
\* ends its time step, whether the cells are sorted, which of the two
\* launches of the engine it is, the threads and the queues and, for a graph
\* that no engine made, its unlocks and skip flags.
AllActive == [c \in 1..2 |-> TRUE]
OneActive == [c \in 1..2 |-> c = 1]
NoSkip == [t \in 1..MaxTasks |-> FALSE]

EngineLaunches ==
  [engine : {"hydro"}, with_mpi : {FALSE}, active : [1..2 -> BOOLEAN],
   presorted : BOOLEAN, launch : {"init_particles", "step"},
   nr_threads : {NrThreads}, nr_queues : {1},
   edges : {{}}, skip : {NoSkip}]
  \cup
  [engine : {"hydro_fixdt"}, with_mpi : {FALSE}, active : {AllActive},
   presorted : {TRUE}, launch : {"step"},
   nr_threads : {NrThreads}, nr_queues : {1},
   edges : {{}}, skip : {NoSkip}]
  \cup
  [engine : {"mpi"}, with_mpi : {TRUE}, active : {AllActive, OneActive},
   presorted : {FALSE}, launch : {"init_particles", "step"},
   nr_threads : {NrThreads}, nr_queues : {1},
   edges : {{}}, skip : {NoSkip}]
  \cup
  [engine : {"gravity"}, with_mpi : {FALSE}, active : {AllActive},
   presorted : {FALSE}, launch : {"step"},
   nr_threads : {NrThreads}, nr_queues : {1},
   edges : {{}}, skip : {NoSkip}]

DagLaunches ==
  [engine : {"dag"}, with_mpi : {FALSE}, active : {AllActive},
   presorted : {FALSE}, launch : {"step"},
   nr_threads : 1..NrThreads, nr_queues : 1..NrQueues,
   edges : SUBSET DagEdges, skip : [1..MaxTasks -> BOOLEAN]]
  \cup
  [engine : {"dag_mpi"}, with_mpi : {TRUE}, active : {AllActive},
   presorted : {FALSE}, launch : {"step"},
   nr_threads : 1..NrThreads, nr_queues : 1..NrQueues,
   edges : SUBSET DagEdges, skip : [1..MaxTasks -> BOOLEAN]]

\* the launches on the graphs with sort tasks, which are implicit when the
\* cells are sorted
SortLaunches ==
  [engine : {"dag_sorts"}, with_mpi : {FALSE}, active : {AllActive},
   presorted : BOOLEAN, launch : {"step"},
   nr_threads : {NrThreads}, nr_queues : {1},
   edges : SUBSET SeqToSet(SortEdges),
   skip : {[t \in 1..(MaxTasks + 1) |-> t = k] : k \in 0..(MaxTasks + 1)}]

Launches == EngineLaunches \cup DagLaunches \cup SortLaunches

launch_active(s, l) ==
  [c \in Cells |-> IF s.parent[c] = NULL THEN l.active[c]
                   ELSE l.active[s.parent[c]]]

launch_sorted(l) == [c \in Cells |-> IF l.presorted THEN AllSorted ELSE 0]

\* engine_prepare marks the tasks of an engine; the skip flags of the other
\* graphs are those of the launch
launch_tasks(l, eng, g) ==
  IF IsDag(l)
  THEN engine_marktasks_fixdt(
         Array([t \in 1..Len(g.tasks) |->
                  [g.tasks[t] EXCEPT !.skip = l.skip[t]]]),
         launch_sorted(l))
  ELSE engine_marktasks(eng, g.tasks, g.cells, launch_active(eng.s, l),
                        launch_sorted(l))

\* the state before the launch l of engine eng on its graph g, with a
\* scheduler whose flags have scheduler_flag_steal or not
InitLaunchFlags(l, eng, g, steal) ==
  /\ ~g.error
  /\ e = [nodeID |-> eng.nodeID, policy |-> eng.policy,
          proxies |-> eng.proxies, s |-> eng.s,
          with_mpi |-> l.with_mpi, nr_threads |-> l.nr_threads,
          nr_queues |-> l.nr_queues, steal |-> steal]
  /\ args = [nr_runners |-> l.nr_threads,
             masks |-> IF l.launch = "step" THEN step_mask(eng)
                       ELSE init_mask(eng)]
  /\ cells = [c \in Cells |->
                [links |-> g.cells[c], lock |-> 0,
                 hold |-> 0, glock |-> 0, ghold |-> 0,
                 sorted |-> launch_sorted(l)[c]]]
  /\ tasks = launch_tasks(l, eng, g)
  /\ tasks_ind = g.tasks_ind
  /\ queues = [q \in Queues |-> EmptyBag]
  /\ waiting = 0
  /\ masks = [mask |-> {}, submask |-> {}]
  /\ req = [t \in DOMAIN tasks |-> "none"]
  /\ err = ""
  /\ barrier = [running |-> 0, launch |-> 0, launchcount |-> 0]
  /\ sleep_mutex = NoThread
  /\ runners = [r \in Runners |-> [pc |-> "barrier", t |-> NULL,
                                    passes |-> 0]]
  /\ main = [pc |-> "idle", ind |-> 1]
  /\ hist = [t \in DOMAIN tasks |-> [started |-> 0, finished |-> 0]]

\* engine_init gives scheduler_flag_steal to scheduler_init
InitLaunch(l, eng, g) == InitLaunchFlags(l, eng, g, TRUE)

Init ==
  /\ call = NoCall
  /\ \E l \in Launches :
       \E eng \in {Engine(l.engine)} :
         \E g \in {Graph(l)} : InitLaunch(l, eng, g)

\* the scheduler's configuration and state, as the operations see them
Sc == [mask |-> masks.mask, submask |-> masks.submask,
       nr_queues |-> e.nr_queues, with_mpi |-> e.with_mpi]
St == [tasks |-> tasks, queues |-> queues, waiting |-> waiting, req |-> req,
       err |-> err]

\* a broadcast that wakes no runner
sleep_cond_no_broadcast(rs) == rs

\* pthread_cond_broadcast(&s->sleep_cond)
sleep_cond_broadcast(rs) ==
  [r \in Runners |-> IF rs[r].pc = "asleep"
                     THEN [rs[r] EXCEPT !.pc = "gettask"] ELSE rs[r]]

\* the main thread holds e->barrier_mutex outside of engine_launch and from
\* the call of scheduler_start on it gives it up only in pthread_cond_wait
barrier_mutex_free == main.pc \notin {"idle", "returned"}

(***************************************************************************)
(* engine.c: engine_launch, by the main thread.                            *)
(***************************************************************************)
\* engine_launch that opens the barrier without its safeguard on waiting
engine_launch_no_safeguard ==
  /\ err = "" /\ main.pc = "idle"
  /\ waiting' = waiting
  /\ barrier' = [barrier EXCEPT !.launch = args.nr_runners,
                                !.launchcount = args.nr_runners]
  /\ masks' = [mask |-> args.masks.mask,
               submask |-> args.masks.submask \cup {"none"}]
  /\ LET r == scheduler_start(masks', tasks)
     IN tasks' = r.tasks /\ err' = r.err
  /\ main' = [pc |-> "enqueue", ind |-> 1]
  /\ UNCHANGED <<call, e, args, cells, tasks_ind, queues, req, sleep_mutex,
                 runners, hist>>

\* the safeguard on waiting, the opening of the barrier, and scheduler_start
\* up to the end of the rewait map: the masks, the waits and the rids
engine_launch ==
  /\ err = "" /\ main.pc = "idle"
  /\ waiting' = waiting + 1
  /\ barrier' = [barrier EXCEPT !.launch = args.nr_runners,
                                !.launchcount = args.nr_runners]
  /\ masks' = [mask |-> args.masks.mask,
               submask |-> args.masks.submask \cup {"none"}]
  /\ LET r == scheduler_start(masks', tasks)
     IN tasks' = r.tasks /\ err' = r.err
  /\ main' = [pc |-> "enqueue", ind |-> 1]
  /\ UNCHANGED <<call, e, args, cells, tasks_ind, queues, req, sleep_mutex,
                 runners, hist>>

\* scheduler_start: one task of the enqueue map
start_enqueue ==
  /\ err = "" /\ main.pc = "enqueue" /\ main.ind <= Len(tasks_ind)
  /\ LET t == tasks_ind[main.ind] IN
     \E qsel \in [enqueue_reach(tasks, t) -> Queues] :
       LET st == scheduler_enqueue_mapper(Sc, St, t, qsel)
       IN /\ tasks' = st.tasks /\ queues' = st.queues
          /\ waiting' = st.waiting /\ req' = st.req /\ err' = st.err
  /\ main' = [main EXCEPT !.ind = @ + 1]
  /\ UNCHANGED <<call, e, args, cells, tasks_ind, masks, barrier, sleep_mutex,
                 runners, hist>>

\* scheduler_enqueue_mapper: the broadcast at its end, without the mutex
start_mapper_broadcast ==
  /\ err = "" /\ main.pc = "enqueue" /\ main.ind > Len(tasks_ind)
  /\ runners' = sleep_cond_broadcast(runners)
  /\ main' = [main EXCEPT !.pc = "broadcast"]
  /\ UNCHANGED <<call, e, args, cells, tasks, tasks_ind, queues, waiting, masks,
                 req, err, barrier, sleep_mutex, hist>>

\* scheduler_start: the last broadcast, with the mutex
start_broadcast ==
  /\ err = "" /\ main.pc = "broadcast" /\ sleep_mutex = NoThread
  /\ runners' = sleep_cond_broadcast(runners)
  /\ main' = [main EXCEPT !.pc = "safeguard"]
  /\ UNCHANGED <<call, e, args, cells, tasks, tasks_ind, queues, waiting, masks,
                 req, err, barrier, sleep_mutex, hist>>

\* engine_launch that leaves its safeguard on waiting in place
engine_launch_keeps_safeguard ==
  /\ err = "" /\ main.pc = "safeguard" /\ sleep_mutex = NoThread
  /\ runners' = sleep_cond_broadcast(runners)
  /\ main' = [main EXCEPT !.pc = "wait"]
  /\ UNCHANGED <<call, e, args, cells, tasks, tasks_ind, queues, waiting,
                 masks, req, err, barrier, sleep_mutex, hist>>

\* the barrier mutex is taken, the safeguard removed, and the main thread
\* waits for the runners
engine_launch_safeguard ==
  /\ err = "" /\ main.pc = "safeguard" /\ sleep_mutex = NoThread
  /\ waiting' = waiting - 1
  /\ runners' = sleep_cond_broadcast(runners)
  /\ main' = [main EXCEPT !.pc = "wait"]
  /\ UNCHANGED <<call, e, args, cells, tasks, tasks_ind, queues, masks, req, err,
                 barrier, sleep_mutex, hist>>

\* the wait that looks at barrier_launch only
engine_launch_return_launched ==
  /\ err = "" /\ main.pc = "wait"
  /\ barrier.launch = 0
  /\ main' = [main EXCEPT !.pc = "returned"]
  /\ UNCHANGED <<call, e, args, cells, tasks, tasks_ind, queues, waiting,
                 masks, req, err, barrier, sleep_mutex, runners, hist>>

\* while (e->barrier_launch || e->barrier_running) pthread_cond_wait
engine_launch_return ==
  /\ err = "" /\ main.pc = "wait"
  /\ barrier.launch = 0 /\ barrier.running = 0
  /\ main' = [main EXCEPT !.pc = "returned"]
  /\ UNCHANGED <<call, e, args, cells, tasks, tasks_ind, queues, waiting, masks,
                 req, err, barrier, sleep_mutex, runners, hist>>

(***************************************************************************)
(* runner.c: runner_main, engine.c: engine_barrier, scheduler.c:           *)
(* scheduler_gettask and scheduler_done, by runner r.                      *)
(***************************************************************************)
\* the bits of c->sorted that runner_do_sort sets in a cell and its progeny
RECURSIVE runner_do_sort_bits(_, _, _, _)
RECURSIVE sort_progeny_bits(_, _, _, _, _)
sort_progeny_bits(s, cs, prog, k, flags) ==
  IF k > Len(prog) THEN cs
  ELSE sort_progeny_bits(s, runner_do_sort_bits(s, cs, prog[k], flags),
                         prog, k + 1, flags)

runner_do_sort_bits(s, cs, c, flags) ==
  LET fl == BitAndNot(flags, cs[c].sorted)
  IN IF fl = 0 THEN cs
     ELSE LET c1 == IF s.split[c]
                    THEN sort_progeny_bits(s, cs, s.progeny[c], 1, fl)
                    ELSE cs
          IN [c1 EXCEPT ![c].sorted = BitOr(@, fl)]

\* queue_gettask: the tasks of queue q whose cells can be locked
gettable(q) ==
  {t \in BagToSet(queues[q]) :
     task_lock(e.s, cells, tasks[t], req[t]).res = 1}

\* the queues that scheduler_gettask asks for runner r: its own and, with
\* scheduler_flag_steal, every other
gettask_queues(r) == {q \in Queues : q = runner_qid(r) \/ e.steal}

\* runner r gets task t out of queue q, with its cells locked; of t->rid the
\* program reads only whether it is negative, so that the cpuid of every
\* runner is taken to be 0
take_task(r, q, t) ==
  /\ queues' = [queues EXCEPT ![q] = @ (-) SetToBag({t})]
  /\ cells' = task_lock(e.s, cells, tasks[t], req[t]).cells
  /\ tasks' = [tasks EXCEPT ![t].rid = 0]
  /\ runners' = [runners EXCEPT ![r].pc = "run", ![r].t = t]
  /\ hist' = [hist EXCEPT ![t].started = @ + 1]

\* the runner leaves pthread_cond_wait of the barrier when it is launched
engine_barrier_pass(r) ==
  /\ err = "" /\ runners[r].pc = "barrier" /\ barrier_mutex_free
  /\ barrier.launch # 0 /\ r < barrier.launchcount
  /\ barrier' = [barrier EXCEPT !.running = @ + 1, !.launch = @ - 1]
  /\ runners' = [runners EXCEPT ![r].pc = "gettask", ![r].passes = @ + 1]
  /\ UNCHANGED <<call, e, args, cells, tasks, tasks_ind, queues, waiting, masks,
                 req, err, sleep_mutex, main, hist>>

\* scheduler_gettask: no task is waiting, NULL is returned; the runner is
\* back in engine_barrier and waits there unless the barrier is open
gettask_null(r) ==
  /\ err = "" /\ runners[r].pc = "gettask" /\ waiting = 0
  /\ barrier_mutex_free
  /\ IF barrier.launch = 0 \/ r >= barrier.launchcount
     THEN /\ barrier' = [barrier EXCEPT !.running = @ - 1]
          /\ runners' = [runners EXCEPT ![r].pc = "barrier"]
     ELSE /\ barrier' = [barrier EXCEPT !.launch = @ - 1]
          /\ runners' = [runners EXCEPT ![r].passes = @ + 1]
  /\ UNCHANGED <<call, e, args, cells, tasks, tasks_ind, queues, waiting, masks,
                 req, err, sleep_mutex, main, hist>>

\* scheduler_gettask: a task of the runner's queue or, stolen, of another
gettask_get(r) ==
  /\ err = "" /\ runners[r].pc = "gettask" /\ waiting > 0
  /\ \E q \in gettask_queues(r) : \E t \in gettable(q) : take_task(r, q, t)
  /\ UNCHANGED <<call, e, args, tasks_ind, waiting, masks, req, err, barrier,
                 sleep_mutex, main>>

\* scheduler_gettask in which every runner that got no task goes for a nap
gettask_fail_naps(r) ==
  /\ err = "" /\ runners[r].pc = "gettask" /\ waiting > 0
  /\ \A q \in gettask_queues(r) : gettable(q) = {}
  /\ runners' = [runners EXCEPT ![r].pc = "nap"]
  /\ UNCHANGED <<call, e, args, cells, tasks, tasks_ind, queues, waiting, masks,
                 req, err, barrier, sleep_mutex, main, hist>>

\* scheduler_gettask: no queue gave a task; a runner of an MPI build with
\* queue 0 or 1 tries again, any other runner goes for a nap
gettask_fail(r) ==
  /\ err = "" /\ runners[r].pc = "gettask" /\ waiting > 0
  /\ \A q \in gettask_queues(r) : gettable(q) = {}
  /\ ~e.with_mpi \/ runner_qid(r) > 1
  /\ runners' = [runners EXCEPT ![r].pc = "nap"]
  /\ UNCHANGED <<call, e, args, cells, tasks, tasks_ind, queues, waiting, masks,
                 req, err, barrier, sleep_mutex, main, hist>>

\* the nap: with the sleep mutex, the runner's queue is asked once more
gettask_nap(r) ==
  /\ err = "" /\ runners[r].pc = "nap" /\ sleep_mutex = NoThread
  /\ IF gettable(runner_qid(r)) # {}
     THEN /\ \E t \in gettable(runner_qid(r)) : take_task(r, runner_qid(r), t)
          /\ UNCHANGED sleep_mutex
     ELSE /\ IF waiting > 0
             THEN /\ sleep_mutex' = r
                  /\ runners' = [runners EXCEPT ![r].pc = "napping"]
             ELSE /\ sleep_mutex' = NoThread
                  /\ runners' = [runners EXCEPT ![r].pc = "gettask"]
          /\ UNCHANGED <<cells, tasks, queues, hist>>
  /\ UNCHANGED <<call, e, args, tasks_ind, waiting, masks, req, err, barrier, main>>

\* pthread_cond_wait(&s->sleep_cond, &s->sleep_mutex)
gettask_sleep(r) ==
  /\ err = "" /\ runners[r].pc = "napping" /\ sleep_mutex = r
  /\ sleep_mutex' = NoThread
  /\ runners' = [runners EXCEPT ![r].pc = "asleep"]
  /\ UNCHANGED <<call, e, args, cells, tasks, tasks_ind, queues, waiting, masks,
                 req, err, barrier, main, hist>>

\* the task has run; scheduler_done: the locks are released, the tasks it
\* unlocks are enqueued when their wait drops to zero and, with the sleep
\* mutex, waiting is decremented and the sleeping runners are woken
runner_done(r) ==
  /\ err = "" /\ runners[r].pc = "run" /\ sleep_mutex = NoThread
  /\ LET t == runners[r].t
         c1 == IF tasks[t].type = "sort"
               THEN runner_do_sort_bits(e.s, cells, tasks[t].ci,
                                        tasks[t].flags)
               ELSE cells
     IN /\ cells' = IF ~tasks[t].implicit
                    THEN task_unlock(e.s, c1, tasks[t]) ELSE c1
        /\ hist' = [hist EXCEPT ![t].finished = @ + 1]
        /\ \E qsel \in [done_reach(tasks, t) -> Queues] :
             LET st == done_unlocks(Sc, St, t, 1, qsel)
             IN /\ tasks' = st.tasks /\ queues' = st.queues /\ req' = st.req
                /\ err' = st.err
                /\ waiting' = IF ~tasks[t].implicit /\ st.err = ""
                              THEN st.waiting - 1 ELSE st.waiting
        /\ runners' = IF ~tasks[t].implicit
                      THEN [sleep_cond_broadcast(runners) EXCEPT
                              ![r].pc = "gettask", ![r].t = NULL]
                      ELSE [runners EXCEPT ![r].pc = "gettask",
                                           ![r].t = NULL]
  /\ UNCHANGED <<call, e, args, tasks_ind, masks, barrier, sleep_mutex, main>>

\* the MPI library completes a posted request
mpi_progress(t) ==
  /\ err = "" /\ req[t] = "posted"
  /\ req' = [req EXCEPT ![t] = "done"]
  /\ UNCHANGED <<call, e, args, cells, tasks, tasks_ind, queues, waiting, masks,
                 err, barrier, sleep_mutex, runners, main, hist>>

Next ==
  \/ engine_launch
  \/ start_enqueue
  \/ start_mapper_broadcast
  \/ start_broadcast
  \/ engine_launch_safeguard
  \/ engine_launch_return
  \/ \E r \in Runners : engine_barrier_pass(r)
  \/ \E r \in Runners : gettask_null(r)
  \/ \E r \in Runners : gettask_get(r)
  \/ \E r \in Runners : gettask_fail(r)
  \/ \E r \in Runners : gettask_nap(r)
  \/ \E r \in Runners : gettask_sleep(r)
  \/ \E r \in Runners : runner_done(r)
  \/ \E t \in DOMAIN req : mpi_progress(t)

Spec == Init /\ [][Next]_vars

(***************************************************************************)
(* The launches under fair scheduling: a thread that can take a step       *)
(* takes one, and the MPI library completes the posted requests.           *)
(***************************************************************************)
main_step ==
  \/ engine_launch
  \/ start_enqueue
  \/ start_mapper_broadcast
  \/ start_broadcast
  \/ engine_launch_safeguard
  \/ engine_launch_return

runner_step(r) ==
  /\ r \in Runners
  /\ \/ engine_barrier_pass(r)
     \/ gettask_null(r)
     \/ gettask_get(r)
     \/ gettask_fail(r)
     \/ gettask_nap(r)
     \/ gettask_sleep(r)
     \/ runner_done(r)

FairInit ==
  /\ call = NoCall
  /\ \E l \in DagLaunches :
       \E eng \in {Engine(l.engine)} :
         \E g \in {Graph(l)} : InitLaunch(l, eng, g)

Fairness ==
  /\ WF_vars(main_step)
  /\ \A r \in 0..(NrThreads - 1) : WF_vars(runner_step(r))
  /\ WF_vars(\E t \in DOMAIN req : mpi_progress(t))

FairSpec == FairInit /\ [][Next]_vars /\ Fairness

(***************************************************************************)
(* scheduler_ranktasks called on its own, on every graph of MaxTasks tasks *)
(* with unlocks between any two of them, a task and itself included.       *)
(***************************************************************************)
\* no launch: the engine is idle on a graph without unlocks
IdleLaunch ==
  [engine |-> "dag", with_mpi |-> FALSE, active |-> AllActive,
   presorted |-> FALSE, launch |-> "step", nr_threads |-> 1, nr_queues |-> 1,
   edges |-> {}, skip |-> NoSkip]

NoLaunch == InitLaunch(IdleLaunch, EngineDag, GraphDag({}, FALSE))

AnyEdges == (1..MaxTasks) \X (1..MaxTasks)

\* the tasks as scheduler_set_unlocks leaves them
rank_input(edges) ==
  [op |-> "scheduler_ranktasks",
   tasks |-> LET b == dag_unlocks(dag_tasks(scheduler_reset, 1, FALSE),
                                  edges, 1)
             IN scheduler_set_unlocks(b.tasks, b.unlocks),
   tid |-> << >>, ret |-> "none"]

RankInit ==
  /\ \E edges \in SUBSET AnyEdges : call = rank_input(edges)
  /\ NoLaunch

rank_call ==
  /\ call.op = "scheduler_ranktasks" /\ call.ret = "none"
  /\ \E r \in {scheduler_ranktasks(call.tasks)} :
       call' = [call EXCEPT
                  !.tasks = r.tasks, !.tid = r.tid,
                  !.ret = IF r.error
                          THEN "Unsatisfiable task dependencies detected."
                          ELSE "returned"]
  /\ UNCHANGED launch_vars

RankSpec == RankInit /\ [][rank_call]_vars

\* the unlocks of the graph that was ranked
unlock_edges ==
  {uv \in AnyEdges : \E k \in 1..Len(call.tasks[uv[1]].unlock_tasks) :
                       call.tasks[uv[1]].unlock_tasks[k] = uv[2]}

\* the tasks reached from task u over n unlocks or fewer, and at least one
RECURSIVE unlocked_from(_, _)
unlocked_from(u, n) ==
  IF n = 0 THEN {}
  ELSE LET near == unlocked_from(u, n - 1)
       IN near \cup {v \in 1..MaxTasks :
                       \E w \in near \cup {u} : <<w, v>> \in unlock_edges}

has_cycle == \E u \in 1..MaxTasks : u \in unlocked_from(u, MaxTasks)

\* C7: when scheduler_ranktasks has returned, the rank of u is less than the
\* rank of v for every unlock from u to v.
C7_RanksIncrease ==
  (call.op = "scheduler_ranktasks" /\ call.ret = "returned") =>
    \A uv \in unlock_edges :
      call.tasks[uv[1]].rank < call.tasks[uv[2]].rank

\* C8: when the unlocks have a cycle, scheduler_ranktasks ends with the
\* error "Unsatisfiable task dependencies detected.".
C8_CycleIsFatal ==
  (call.op = "scheduler_ranktasks" /\ call.ret # "none" /\ has_cycle) =>
    call.ret = "Unsatisfiable task dependencies detected."

\* the error was raised on a graph in which two tasks unlock each other and
\* a third task has been ranked before
C8_Witness ==
  /\ call.op = "scheduler_ranktasks"
  /\ call.ret = "Unsatisfiable task dependencies detected."
  /\ \E u, v \in 1..MaxTasks :
       /\ u # v /\ <<u, v>> \in unlock_edges /\ <<v, u>> \in unlock_edges
  /\ Len(call.tid) > 0

(***************************************************************************)
(* task_lock and task_unlock called on their own, by tasks on the cells of *)
(* the space of the hydro engine: cell 1 with its progeny 3, and cell 2.   *)
(* A task is locked, and unlocked when it has its cells.                   *)
(***************************************************************************)
LockTask(type, subtype, ci, cj) ==
  [type |-> type, subtype |-> subtype, ci |-> ci, cj |-> cj]

LockTasks ==
  {LockTask(ty, st, c[1], c[2]) :
     ty \in {"pair", "sub_pair"}, st \in {"density", "grav"},
     c \in {<<1, 2>>, <<3, 2>>, <<2, 1>>, <<2, 3>>}}
  \cup {LockTask("self", st, c, NULL) : st \in {"density", "grav"},
                                         c \in Cells}
  \cup {LockTask("sort", "none", c, NULL) : c \in {1, 3}}
  \cup {LockTask("grav_mm", "none", 2, NULL)}

NoTask == LockTask("none", "none", NULL, NULL)

LockInit ==
  /\ call = [op |-> "task_lock",
             cells |-> [c \in Cells |-> [lock |-> 0, hold |-> 0, glock |-> 0,
                                         ghold |-> 0]],
             held |-> {}, t |-> NoTask,
             before |-> [c \in Cells |-> [lock |-> 0, hold |-> 0,
                                          glock |-> 0, ghold |-> 0]],
             res |-> 0, order |-> << >>]
  /\ NoLaunch

\* task_lock(t)
lock_call(t) ==
  /\ call.op = "task_lock" /\ t \notin call.held
  /\ \E r \in {task_lock(EngineHydro.s, call.cells, t, "none")} :
       call' = [call EXCEPT
                  !.cells = r.cells,
                  !.held = IF r.res = 1 THEN @ \cup {t} ELSE @,
                  !.t = t, !.before = call.cells, !.res = r.res,
                  !.order = task_lock_order(EngineHydro.s, call.cells, t)]
  /\ UNCHANGED launch_vars

\* task_unlock(t)
unlock_call(t) ==
  /\ call.op = "task_lock" /\ t \in call.held
  /\ call' = [call EXCEPT
                !.cells = task_unlock(EngineHydro.s, call.cells, t),
                !.held = @ \ {t}, !.t = NoTask, !.before = call.cells,
                !.res = 0, !.order = << >>]
  /\ UNCHANGED launch_vars

LockNext ==
  \/ \E t \in LockTasks : lock_call(t)
  \/ \E t \in LockTasks : unlock_call(t)

LockSpec == LockInit /\ [][LockNext]_vars

\* the lock of cell c that a task of this subtype takes
lock_of(cs, t, c) == IF t.subtype = "grav" THEN cs[c].glock ELSE cs[c].lock

\* C5: task_lock on a pair or sub_pair task returns 1 with both of its
\* cells locked, or returns 0 and leaves every cell as it was before.
C5_BothOrNeither ==
  (/\ call.op = "task_lock"
   /\ call.t.type \in {"pair", "sub_pair"}) =>
    \/ /\ call.res = 1
       /\ lock_of(call.cells, call.t, call.t.ci) = 1
       /\ lock_of(call.cells, call.t, call.t.cj) = 1
       /\ lock_of(call.before, call.t, call.t.ci) = 0
       /\ lock_of(call.before, call.t, call.t.cj) = 0
    \/ /\ call.res = 0
       /\ call.cells = call.before

\* task_lock has returned 0 on a pair whose first cell was free and whose
\* second cell was locked
C5_Witness ==
  /\ call.op = "task_lock"
  /\ call.t.type \in {"pair", "sub_pair"} /\ call.res = 0
  /\ lock_of(call.before, call.t, call.t.ci) = 0
  /\ call.before[call.t.ci].hold = 0 /\ call.before[call.t.ci].ghold = 0
  /\ call.before[call.t.cj].hold = 0 /\ call.before[call.t.cj].ghold = 0
  /\ \A a \in Ancestors(EngineHydro.s, call.t.ci) :
       lock_of(call.before, call.t, a) = 0
  /\ lock_of(call.before, call.t, call.t.cj) = 1

\* two pair tasks that take the same kind of lock on the same two cells
share_cells(t1, t2) ==
  /\ t1.type \in {"pair", "sub_pair"} /\ t2.type \in {"pair", "sub_pair"}
  /\ (t1.subtype = "grav") = (t2.subtype = "grav")
  /\ {t1.ci, t1.cj} = {t2.ci, t2.cj}

required_cells(t) ==
  IF t.type \in {"sort", "self", "sub_self", "grav_mm"} THEN {t.ci}
  ELSE IF t.type \in {"pair", "sub_pair"} THEN {t.ci, t.cj}
  ELSE {}

\* the lock of cell c that a task of this type and subtype requires
required_lock(cs, t, c) ==
  IF t.subtype = "grav" \/ t.type = "grav_mm" THEN cs[c].glock
  ELSE cs[c].lock

\* C25: when task_lock returns 1 the caller holds the lock of every cell
\* that the type of the task requires: the lock was free before the call
\* and is taken after it.
C25_OneMeansHeld ==
  (call.op = "task_lock" /\ call.t # NoTask /\ call.res = 1) =>
    \A c \in required_cells(call.t) :
      /\ required_lock(call.before, call.t, c) = 0
      /\ required_lock(call.cells, call.t, c) = 1

(***************************************************************************)
(* scheduler_enqueue called on its own, on a task of a graph of MaxTasks   *)
(* tasks after the rewait of scheduler_start, in a build with MPI.  The    *)
(* tasks are self tasks of the density or of the force loop or recv tasks; *)
(* the force loop is outside the submask.  The caller has decremented the  *)
(* wait of the task to 0.                                                  *)
(***************************************************************************)
EnqueueKinds == <<<<"self", "density">>, <<"self", "force">>,
                  <<"recv", "none">>>>

EnqueueMasks == [mask |-> {"self", "recv"}, submask |-> {"density", "none"}]

RECURSIVE enqueue_tasks(_, _, _)
enqueue_tasks(b, i, kinds) ==
  IF i > MaxTasks THEN b
  ELSE enqueue_tasks(scheduler_addtask(b, EnqueueKinds[kinds[i]][1],
                                       EnqueueKinds[kinds[i]][2], i, 0,
                                       1 + (i % 2), NULL, FALSE),
                     i + 1, kinds)

\* the scheduler before the call
enqueue_before(g, skip, t) ==
  [tasks |-> [scheduler_start(EnqueueMasks,
                Array([k \in 1..MaxTasks |->
                         [g.tasks[k] EXCEPT !.skip = skip[k]]])).tasks
              EXCEPT ![t].wait = 0],
   queues |-> [q \in 0..(NrQueues - 1) |-> EmptyBag],
   waiting |-> 1,
   req |-> [k \in 1..MaxTasks |-> "none"],
   err |-> ""]

enqueue_input(g, skip, t) ==
  [op |-> "scheduler_enqueue",
   sc |-> [mask |-> EnqueueMasks.mask, submask |-> EnqueueMasks.submask,
           nr_queues |-> NrQueues, with_mpi |-> TRUE],
   t |-> t, done |-> FALSE,
   before |-> enqueue_before(g, skip, t),
   after |-> enqueue_before(g, skip, t)]

EnqueueInit ==
  /\ \E kinds \in [1..MaxTasks -> 1..Len(EnqueueKinds)] :
       \E edges \in SUBSET DagEdges :
         \E g \in {maketasks_ranked(dag_unlocks(
                     enqueue_tasks(scheduler_reset, 1, kinds), edges, 1))} :
           \E skip \in [1..MaxTasks -> BOOLEAN] :
             \E t \in 1..MaxTasks : call = enqueue_input(g, skip, t)
  /\ NoLaunch

\* scheduler_enqueue(s, t)
enqueue_call ==
  /\ call.op = "scheduler_enqueue" /\ ~call.done
  /\ \E qsel \in [enqueue_reach(call.before.tasks, call.t) ->
                   0..(NrQueues - 1)] :
       call' = [call EXCEPT
                  !.done = TRUE,
                  !.after = scheduler_enqueue(call.sc, call.before, call.t,
                                              qsel)]
  /\ UNCHANGED launch_vars

EnqueueSpec == EnqueueInit /\ [][enqueue_call]_vars

Nodes == 0..(NrNodes - 1)

Dangling == 0 - 1

Perms(n) == {p \in [1..n -> 1..n] : \A i, j \in 1..n : p[i] = p[j] => i = j}

index_of(seq, x) == CHOOSE k \in 1..Len(seq) : seq[k] = x

\* space_parts_sort and space_gparts_sort: any order of the array in which
\* the destinations ascend
sorted_by_dest(a, cell_nodeID) ==
  {Array([k \in 1..Len(a) |-> a[p[k]]]) : p \in
     {q \in Perms(Len(a)) :
        \A i, j \in 1..Len(a) :
          i < j => cell_nodeID[a[q[i]].x] <= cell_nodeID[a[q[j]].x]}}

\* the loop that stores in each partner the index of its part among the
\* parts sent to the same node (engine.c:321-346)
RECURSIVE redistribute_relink(_, _, _, _, _, _)
redistribute_relink(parts, gparts, cell_nodeID, k, current_dest, count) ==
  IF k > Len(parts) THEN gparts
  ELSE IF parts[k].gpart = NULL
  THEN redistribute_relink(parts, gparts, cell_nodeID, k + 1, current_dest,
                           count)
  ELSE LET dest == cell_nodeID[parts[k].x]
           c == IF dest # current_dest THEN 0 ELSE count
       IN redistribute_relink(
            parts,
            [gparts EXCEPT ![parts[k].gpart].id_or_neg_offset = 0 - c],
            cell_nodeID, k + 1, dest, c + 1)

\* the part of engine_redistribute before the first MPI_Allreduce on one
\* rank (engine.c:291-372): the parts sorted by destination, the offsets
\* stored in the partners, the gparts sorted by destination
redistribute_local(s, cell_nodeID) ==
  UNION {{[parts |-> ps, gparts |-> gs] :
            gs \in sorted_by_dest(
                     IF ps = << >> THEN s.gparts
                     ELSE redistribute_relink(ps, s.gparts, cell_nodeID, 1,
                                              cell_nodeID[ps[1].x], 0),
                     cell_nodeID)} :
         ps \in sorted_by_dest(
                  \* the pointers follow the parts: the gparts have not
                  \* moved yet
                  s.parts, cell_nodeID)}

\* counts[from * nr_nodes + to] of an array of parts or of gparts
redistribute_count(a, cell_nodeID, to) ==
  Cardinality({k \in 1..Len(a) : cell_nodeID[a[k].x] = to})

RECURSIVE sum_counts(_, _, _, _, _)
sum_counts(a, cell_nodeID, from, to, acc) ==
  IF from > to THEN acc
  ELSE sum_counts(a, cell_nodeID, from + 1, to,
                  acc + redistribute_count(a, cell_nodeID, from))

\* the sub-array that a rank sends to the node to (engine.c:422-476)
redistribute_send(a, cell_nodeID, to) ==
  SubSeq(a, sum_counts(a, cell_nodeID, 0, to - 1, 0) + 1,
         sum_counts(a, cell_nodeID, 0, to, 0))

\* parts_new or gparts_new of nodeID: what the nodes from node on have
\* sent, in the order of the nodes (engine.c:478-500)
RECURSIVE redistribute_recv(_, _, _, _)
redistribute_recv(arrays, cell_nodeID, nodeID, node) ==
  IF node > NrNodes - 1 THEN << >>
  ELSE redistribute_send(arrays[node], cell_nodeID, nodeID)
       \o redistribute_recv(arrays, cell_nodeID, nodeID, node + 1)

\* the gpart pointers of the parts received are addresses of the old arrays
received_parts(parts) ==
  Array([k \in 1..Len(parts) |->
           [parts[k] EXCEPT !.gpart = IF @ = NULL THEN NULL ELSE Dangling]])

\* the mutant of restore_offset_parts that forgets the nodes before
restore_offset_first(counts, node) == 0

\* offset_parts when the loop reaches node: counts is the function from
\* the nodes to the number of parts received from them
RECURSIVE restore_offset_sum(_, _)
restore_offset_sum(counts, node) ==
  IF node = 0 THEN 0
  ELSE counts[node - 1] + restore_offset_sum(counts, node - 1)

restore_offset_parts(counts, node) == restore_offset_sum(counts, node)

\* the gparts received from one node, from k: restore the links
\* (engine.c:526-538)
RECURSIVE restore_node(_, _, _, _, _)
restore_node(parts_new, gparts_new, offset_parts, k, last) ==
  IF k > last
  THEN [parts |-> parts_new, gparts |-> gparts_new, err |-> ""]
  ELSE IF gparts_new[k].id_or_neg_offset <= 0
  THEN LET partner_index == offset_parts - gparts_new[k].id_or_neg_offset
       IN IF partner_index >= Len(parts_new)
          THEN [parts |-> parts_new, gparts |-> gparts_new,
                err |-> "write outside parts_new"]
          ELSE restore_node(
                 [parts_new EXCEPT ![partner_index + 1].gpart = k],
                 [gparts_new EXCEPT
                    ![k].id_or_neg_offset = 0 - partner_index],
                 offset_parts, k + 1, last)
  ELSE restore_node(parts_new, gparts_new, offset_parts, k + 1, last)

\* the loop over the nodes that restores the links (engine.c:515-542)
RECURSIVE redistribute_restore(_, _, _, _, _)
redistribute_restore(parts_new, gparts_new, counts, g_counts, node) ==
  IF node > NrNodes - 1
  THEN [parts |-> parts_new, gparts |-> gparts_new, err |-> ""]
  ELSE LET offset_gparts == restore_offset_sum(g_counts, node)
           r == restore_node(parts_new, gparts_new,
                             restore_offset_parts(counts, node),
                             offset_gparts + 1,
                             offset_gparts + g_counts[node])
       IN IF r.err # "" THEN r
          ELSE redistribute_restore(r.parts, r.gparts, counts, g_counts,
                                    node + 1)

\* the part of engine_redistribute after the counts are known, on the rank
\* nodeID (engine.c:374-587); local holds the sorted arrays of every rank
redistribute_exchange(local, cell_nodeID, nodeID) ==
  redistribute_restore(
    received_parts(redistribute_recv([n \in Nodes |-> local[n].parts],
                                     cell_nodeID, nodeID, 0)),
    redistribute_recv([n \in Nodes |-> local[n].gparts], cell_nodeID,
                      nodeID, 0),
    [n \in Nodes |->
       redistribute_count(local[n].parts, cell_nodeID, nodeID)],
    [n \in Nodes |->
       redistribute_count(local[n].gparts, cell_nodeID, nodeID)],
    0)

\* the positions of the gas and of the dark matter of a rank, and its
\* arrays before the redistribution
gas_at(home, n) ==
  SelectSeq([i \in 1..MaxGas |-> i], LAMBDA i : home[i] = n)

dm_at(home, n) ==
  SelectSeq([i \in 1..MaxDm |-> MaxGas + i], LAMBDA i : home[i] = n)

gparts_at(home, n, gravity, dm_first) ==
  IF ~gravity THEN dm_at(home, n)
  ELSE IF dm_first THEN dm_at(home, n) \o gas_at(home, n)
  ELSE gas_at(home, n) \o dm_at(home, n)

space_at(home, n, gravity, dm_first) ==
  [parts |->
     Array([k \in 1..Len(gas_at(home, n)) |->
        [x |-> gas_at(home, n)[k],
         gpart |-> IF gravity
                   THEN index_of(gparts_at(home, n, gravity, dm_first),
                                 gas_at(home, n)[k])
                   ELSE NULL]]),
   gparts |->
     Array([k \in 1..Len(gparts_at(home, n, gravity, dm_first)) |->
        LET x == gparts_at(home, n, gravity, dm_first)[k]
        IN [x |-> x,
            id_or_neg_offset |->
              IF x <= MaxGas THEN 0 - (index_of(gas_at(home, n), x) - 1)
              ELSE x]])]

RedistInit ==
  /\ \E home \in [1..(MaxGas + MaxDm) -> Nodes] :
       \E cell_nodeID \in [1..(MaxGas + MaxDm) -> Nodes] :
         \E gravity \in BOOLEAN : \E dm_first \in BOOLEAN :
           \E sp \in {[n \in Nodes |->
                         space_at(home, n, gravity, dm_first)]} :
             call = [op |-> "engine_redistribute", home |-> home,
                     cell_nodeID |-> cell_nodeID,
                     before |-> sp, local |-> sp,
                     sorted |-> [n \in Nodes |-> FALSE],
                     done |-> FALSE, after |-> sp, err |-> ""]
  /\ NoLaunch

\* a rank runs engine_redistribute up to the first MPI_Allreduce
redistribute_sort(n) ==
  /\ call.op = "engine_redistribute" /\ ~call.sorted[n]
  /\ \E l \in redistribute_local(call.local[n], call.cell_nodeID) :
       call' = [call EXCEPT !.local[n] = l, !.sorted[n] = TRUE]
  /\ UNCHANGED launch_vars

\* every rank has reached the MPI_Allreduce: the counts are summed, the
\* particles sent and received and the links restored on every rank
redistribute_finish ==
  /\ call.op = "engine_redistribute" /\ ~call.done
  /\ \A n \in Nodes : call.sorted[n]
  /\ \E r \in {[n \in Nodes |->
                  redistribute_exchange(call.local, call.cell_nodeID, n)]} :
       call' = [call EXCEPT
                  !.done = TRUE,
                  !.after = [n \in Nodes |->
                               [parts |-> r[n].parts,
                                gparts |-> r[n].gparts]],
                  !.err = IF \E n \in Nodes : r[n].err # ""
                          THEN "write outside parts_new" ELSE ""]
  /\ UNCHANGED launch_vars

RedistNext == (\E n \in Nodes : redistribute_sort(n)) \/ redistribute_finish

RedistSpec == RedistInit /\ [][RedistNext]_vars

RepartTypes == {"both", "edge", "vertex_edge", "vertex"}

\* pick_metis (partition.c:297-395)
pick_metis(regionid) ==
  IF \E k \in 1..NrCells : regionid[k] \notin Nodes
  THEN [celllist |-> regionid, err |-> "Got bad nodeID"]
  ELSE [celllist |-> regionid, err |-> ""]

\* repart_edge_metis on node 0, up to the MPI_Bcast (partition.c:563-657)
repart_edge_metis(nodeID, regionid) ==
  LET picked == pick_metis(regionid)
      present == [i \in Nodes |->
                    Cardinality({k \in 1..NrCells :
                                   picked.celllist[k] = i})]
      failed == \E i \in Nodes : present[i] = 0
  IN IF picked.err # "" THEN picked
     ELSE IF failed THEN [celllist |-> nodeID, err |-> ""]
     ELSE picked

\* repart_vertex_metis on node 0, up to the MPI_Bcast (partition.c:679-702)
repart_vertex_metis(nodeID, regionid) == pick_metis(regionid)

\* partition_repartition on node 0, up to the MPI_Bcast
partition_repartition(reparttype, nodeID, regionid) ==
  IF reparttype \in {"both", "edge", "vertex_edge"}
  THEN repart_edge_metis(nodeID, regionid)
  ELSE IF reparttype = "vertex"
  THEN repart_vertex_metis(nodeID, regionid)
  ELSE [celllist |-> nodeID, err |-> "Unknown repartition type"]

\* split_metis (partition.c:273-276)
split_metis(celllist) == [i \in 1..NrCells |-> celllist[i]]

RepartInit ==
  /\ \E nodeID \in {f \in [1..NrCells -> Nodes] :
                      \A n \in Nodes : \E k \in 1..NrCells : f[k] = n} :
       \E reparttype \in RepartTypes :
         \E regionid \in [1..NrCells -> 0..NrNodes] :
           call = [op |-> "partition_repartition",
                   reparttype |-> reparttype, regionid |-> regionid,
                   nodeID |-> [n \in Nodes |-> nodeID],
                   celllist |-> nodeID, bcast |-> FALSE,
                   split |-> [n \in Nodes |-> FALSE], err |-> ""]
  /\ NoLaunch

\* node 0 computes the partition and broadcasts the cell list
repart_pick ==
  /\ call.op = "partition_repartition" /\ ~call.bcast /\ call.err = ""
  /\ \E r \in {partition_repartition(call.reparttype, call.nodeID[0],
                                     call.regionid)} :
       call' = [call EXCEPT !.celllist = r.celllist, !.err = r.err,
                            !.bcast = r.err = ""]
  /\ UNCHANGED launch_vars

\* a rank has received the cell list and applies it to its cells
repart_split(n) ==
  /\ call.op = "partition_repartition" /\ call.bcast /\ ~call.split[n]
  /\ call' = [call EXCEPT !.nodeID[n] = split_metis(call.celllist),
                          !.split[n] = TRUE]
  /\ UNCHANGED launch_vars

RepartNext == repart_pick \/ \E n \in Nodes : repart_split(n)

RepartSpec == RepartInit /\ [][RepartNext]_vars

\* C12: once a repartition of any type has been applied on a rank, every
\* rank in [0, nr_nodes) is the nodeID of at least one top-level cell there,
\* whatever cell list the partitioner returned.
C12_EveryRankHasCell ==
  (call.op = "partition_repartition" /\ call.err = "") =>
    \A n \in Nodes :
      call.split[n] =>
        \A r \in Nodes : \E k \in 1..NrCells : call.nodeID[n][k] = r

(***************************************************************************)
(* engine_step around its repartition branch.  repartdata holds the type   *)
(* it was started for, nr_cells (0 until timings were accumulated) and     *)
(* count, the number of accumulations.  forcerepart is set from outside    *)
(* between two steps.  called and was record, for the branch of the last   *)
(* step, the function it called and the engine it found.                   *)
(***************************************************************************)
NoRepartData == [reparttype |-> "none", nr_cells |-> 0, count |-> 0]

\* partition_repartition_accumulate (partition.c:732-775) with
\* repart_edge_metis_accumulate (partition.c:409-553)
partition_repartition_accumulate(reparttype, repartdata) ==
  IF repartdata.nr_cells # 0 /\ repartdata.reparttype # reparttype
  THEN [repartdata |-> repartdata, err |-> "mismatch of fundamental data"]
  ELSE LET d == [repartdata EXCEPT !.reparttype = reparttype]
       IN [repartdata |->
             IF reparttype \in {"both", "edge", "vertex_edge"}
             THEN [d EXCEPT !.nr_cells = NrCells,
                            !.count = IF d.nr_cells = 0 THEN 1 ELSE @ + 1]
             ELSE d,
           err |-> ""]

\* engine_repartition that leaves forcerebuild as it is
engine_repartition_no_rebuild(en) ==
  IF en.nr_nodes = 1 THEN [en EXCEPT !.forcerepart = FALSE]
  ELSE IF en.repartdata.reparttype \notin RepartTypes
  THEN [en EXCEPT !.forcerepart = FALSE,
                  !.err = "Unknown repartition type"]
  ELSE [en EXCEPT !.forcerepart = FALSE, !.repartdata = NoRepartData]

\* engine_repartition (engine.c:615-655)
engine_repartition(en) ==
  IF en.nr_nodes = 1 THEN [en EXCEPT !.forcerepart = FALSE]
  ELSE IF en.repartdata.reparttype \notin RepartTypes
  THEN [en EXCEPT !.forcerepart = FALSE,
                  !.err = "Unknown repartition type"]
  ELSE [en EXCEPT !.forcerepart = FALSE, !.repartdata = NoRepartData,
                  !.forcerebuild = TRUE]

\* the mutant of step_branch that accumulates whatever the type is
step_branch_any_type(en) ==
  IF en.forcerepart THEN "engine_repartition"
  ELSE "partition_repartition_accumulate"

\* the function that engine_step calls between the drift and engine_prepare
\* (engine.c:2755-2765)
step_branch(en) ==
  IF en.forcerepart THEN "engine_repartition"
  ELSE IF en.reparttype # "none" THEN "partition_repartition_accumulate"
  ELSE "none"

StepInit ==
  /\ \E nr_nodes \in 1..NrNodes : \E reparttype \in {"none"} \cup RepartTypes :
       call = [op |-> "engine_step", pc |-> "idle", step |-> 0,
               called |-> "none",
               en |-> [nr_nodes |-> nr_nodes, reparttype |-> reparttype,
                       forcerepart |-> FALSE, forcerebuild |-> TRUE,
                       drift_all |-> FALSE, repartdata |-> NoRepartData,
                       err |-> ""],
               was |-> [nr_nodes |-> nr_nodes, reparttype |-> reparttype,
                        forcerepart |-> FALSE, forcerebuild |-> TRUE,
                        drift_all |-> FALSE, repartdata |-> NoRepartData,
                        err |-> ""]]
  /\ NoLaunch

\* a repartition is asked for between two steps
step_force ==
  /\ call.op = "engine_step" /\ call.pc = "idle" /\ call.en.err = ""
  /\ ~call.en.forcerepart
  /\ call' = [call EXCEPT !.en.forcerepart = TRUE]
  /\ UNCHANGED launch_vars

\* engine_step up to and with engine_drift (engine.c:2686-2753)
step_drift ==
  /\ call.op = "engine_step" /\ call.pc = "idle" /\ call.en.err = ""
  /\ call.step < MaxSteps
  /\ call' = [call EXCEPT !.pc = "drifted", !.step = @ + 1,
                          !.en.drift_all = call.en.forcerepart]
  /\ UNCHANGED launch_vars

\* the repartition branch of engine_step (engine.c:2755-2765)
step_repart ==
  /\ call.op = "engine_step" /\ call.pc = "drifted"
  /\ \E f \in {step_branch(call.en)} :
       call' = [call EXCEPT
         !.pc = "reparted", !.called = f, !.was = call.en,
         !.en =
           IF f = "engine_repartition" THEN engine_repartition(call.en)
           ELSE IF f = "partition_repartition_accumulate"
           THEN LET r == partition_repartition_accumulate(
                           call.en.reparttype, call.en.repartdata)
                IN [call.en EXCEPT !.repartdata = r.repartdata,
                                   !.err = r.err]
           ELSE call.en]
  /\ UNCHANGED launch_vars

\* engine_prepare and the rest of engine_step (engine.c:2767-2851)
step_launch ==
  /\ call.op = "engine_step" /\ call.pc = "reparted" /\ call.en.err = ""
  /\ call' = [call EXCEPT !.pc = "idle", !.en.forcerebuild = FALSE,
                          !.en.drift_all = FALSE]
  /\ UNCHANGED launch_vars

StepNext == step_force \/ step_drift \/ step_repart \/ step_launch

StepSpec == StepInit /\ [][StepNext]_vars

\* the task timings of a step were added to the repartition data
accumulated ==
  /\ call.en.err = ""
  /\ call.en.repartdata.nr_cells = NrCells
  /\ call.en.repartdata.count =
       (IF call.was.repartdata.nr_cells = 0 THEN 0
        ELSE call.was.repartdata.count) + 1

\* C13: in every step, between the drift and engine_prepare, either
\* forcerepart was set and engine_repartition has been called, or it was not
\* set and the task timings have been accumulated into the repartition data.
C13_RepartOrAccumulate ==
  (call.op = "engine_step" /\ call.pc = "reparted") =>
    IF call.was.forcerepart THEN call.called = "engine_repartition"
    ELSE accumulated

\* C13 as the code has it: with forcerepart set engine_repartition is
\* called; otherwise the timings are accumulated if the repartition type
\* weighs by task times (both, edge, vertex_edge), and the repartition data
\* keep their weights if the type is vertex or none, in which last case no
\* function is called at all.
C13_RepartOrAccumulateByType ==
  (call.op = "engine_step" /\ call.pc = "reparted") =>
    IF call.was.forcerepart
    THEN call.called = "engine_repartition" /\ ~call.en.forcerepart
    ELSE IF call.en.reparttype \in {"both", "edge", "vertex_edge"}
    THEN call.called = "partition_repartition_accumulate" /\ accumulated
    ELSE /\ call.called = (IF call.en.reparttype = "none" THEN "none"
                           ELSE "partition_repartition_accumulate")
         /\ call.en.repartdata.count = call.was.repartdata.count
         /\ call.en.repartdata.nr_cells = call.was.repartdata.nr_cells
         /\ call.en.err = ""

\* the branch of the last step of an engine without repartition type has
\* called nothing
C13_Witness ==
  /\ call.op = "engine_step" /\ call.pc = "reparted"
  /\ call.en.reparttype = "none" /\ call.called = "none"
  /\ ~call.was.forcerepart /\ call.step = MaxSteps

(***************************************************************************)
(* engine_maketasks called twice in a row on the cells of an engine, the   *)
(* first time on cells that space_rebuild has just made.  The engines have *)
(* two top-level cells, leaves or, without self-gravity, the first one     *)
(* split, with or without particles, all local or the second one on        *)
(* another node.                                                           *)
(***************************************************************************)
MakePolicies ==
  {{"hydro"}, {"hydro", "fixdt"}, {"self_gravity"},
   {"hydro", "self_gravity"}, {"hydro", "external_gravity"}}

make_counts(c1, c2) == [c \in Cells |-> IF c = 2 THEN c2 ELSE c1]

make_engine(split, policy, foreign, c1, c2) ==
  LET nodeID == [c \in Cells |-> IF foreign /\ c = 2 THEN 1
                                 ELSE engine_rank]
      count == IF "hydro" \in policy THEN make_counts(c1, c2)
               ELSE make_counts(0, 0)
      gcount == IF policy \cap {"self_gravity", "external_gravity"} # {}
                THEN make_counts(c1, c2)
                ELSE make_counts(0, 0)
  IN [nodeID |-> engine_rank,
      policy |-> IF foreign THEN policy \cup {"mpi"} ELSE policy,
      proxies |-> IF foreign
                  THEN <<[cells_in |-> <<2>>, cells_out |-> <<1>>]>>
                  ELSE << >>,
      s |-> IF split THEN SpaceSplit(nodeID, count, gcount)
            ELSE SpaceLeaf(nodeID, count, gcount)]

MakeEngines ==
  {make_engine(FALSE, policy, FALSE, c1, c2) :
     policy \in MakePolicies, c1 \in 0..1, c2 \in 0..1}
  \cup {make_engine(TRUE, policy, FALSE, c1, c2) :
          policy \in {p \in MakePolicies : "self_gravity" \notin p},
          c1 \in 0..1, c2 \in 0..1}
  \cup {make_engine(FALSE, {"hydro"}, TRUE, c1, c2) : c1 \in 0..1, c2 \in 0..1}

MakeInit ==
  /\ \E en \in MakeEngines :
       call = [op |-> "engine_maketasks", en |-> en, builds |-> 0,
               links |-> scheduler_reset.cells, graphs |-> << >>]
  /\ NoLaunch

\* engine_maketasks(e)
maketasks_call ==
  /\ call.op = "engine_maketasks" /\ call.builds < 2
  /\ \E g \in {maketasks_again(call.en, call.links)} :
       call' = [call EXCEPT !.builds = @ + 1, !.links = g.cells,
                            !.graphs = Append(@, [tasks |-> g.tasks,
                                                  error |-> g.error])]
  /\ UNCHANGED launch_vars

MakeSpec == MakeInit /\ [][maketasks_call]_vars

TaskTypes ==
  {"none", "sort", "self", "pair", "sub_self", "sub_pair", "init", "ghost",
   "extra_ghost", "kick", "kick_fixdt", "send", "recv", "grav_gather_m",
   "grav_fft", "grav_mm", "grav_up", "grav_external", "cooling",
   "sourceterms"}

nr_of_type(g, type) ==
  Cardinality({t \in 1..Len(g.tasks) : g.tasks[t].type = type})

\* C14: after two calls of engine_maketasks in a row the second graph has as
\* many tasks of every type as the first, and its tasks have the ranks of
\* the tasks of the first.
C14_SameGraphTwice ==
  (call.op = "engine_maketasks" /\ call.builds = 2) =>
    /\ \A type \in TaskTypes :
         nr_of_type(call.graphs[1], type) = nr_of_type(call.graphs[2], type)
    /\ \A t \in 1..Len(call.graphs[1].tasks) :
         t <= Len(call.graphs[2].tasks) =>
           call.graphs[1].tasks[t].rank = call.graphs[2].tasks[t].rank

(***************************************************************************)
(* runner.c: runner_do_sort and runner_do_sort_ascending.  A cell holds    *)
(* the positions <<x, y>> of its parts, its progeny (8 slots, NULL for a   *)
(* missing one), the set sorted of the directions that are sorted and one  *)
(* array of entries [d, i] per direction, of count + 1 entries once it is  *)
(* sorted.  The directions are the two axes, runner_shift[4] = (1, 0, 0)   *)
(* and runner_shift[10] = (0, 1, 0).  Indices count from 0 as in the code, *)
(* sequences from 1.                                                       *)
(***************************************************************************)
SortDirs == {4, 10}

FLT_MAX == 1000000

\* qstack[10]
QStackSize == 10

sort_d(x, j) == IF j = 4 THEN x[1] ELSE x[2]

sort_swap(sort, a, b) ==
  [sort EXCEPT ![a + 1] = sort[b + 1], ![b + 1] = sort[a + 1]]

\* the inner loop of the selection sort: the index of the least entry
RECURSIVE sort_imin(_, _, _, _)
sort_imin(sort, imin, j, hi) ==
  IF j > hi THEN imin
  ELSE IF sort[j + 1].d < sort[imin + 1].d THEN sort_imin(sort, j, j + 1, hi)
  ELSE sort_imin(sort, imin, j + 1, hi)

\* the selection sort of the entries i..hi (runner.c:274-284)
RECURSIVE sort_select(_, _, _)
sort_select(sort, i, hi) ==
  IF i >= hi THEN sort
  ELSE LET imin == sort_imin(sort, i, i + 1, hi)
       IN IF imin # i THEN sort_select(sort_swap(sort, imin, i), i + 1, hi)
          ELSE sort_select(sort, i + 1, hi)

\* while (sort[i].d < pivot) i++
sort_scan_up(sort, i, pivot) ==
  CHOOSE k \in i..(Len(sort) - 1) :
    /\ sort[k + 1].d >= pivot
    /\ \A m \in i..(k - 1) : sort[m + 1].d < pivot

\* while (sort[j].d > pivot) j--
sort_scan_down(sort, j, pivot) ==
  j - (CHOOSE t \in 0..j :
         /\ sort[j - t + 1].d <= pivot
         /\ \A u \in 0..(t - 1) : sort[j - u + 1].d > pivot)

\* one pass of the loop while (i <= j) of the partition (runner.c:289-300)
sort_partition_step(p) ==
  IF p.i > p.j THEN p
  ELSE LET i1 == sort_scan_up(p.sort, p.i, p.pivot)
           j1 == sort_scan_down(p.sort, p.j, p.pivot)
       IN IF i1 > j1 THEN [p EXCEPT !.i = i1, !.j = j1]
          ELSE [p EXCEPT !.sort = IF i1 < j1 THEN sort_swap(@, i1, j1) ELSE @,
                         !.i = i1 + 1, !.j = j1 - 1]

\* n passes of the loop
RECURSIVE sort_partition(_, _)
sort_partition(p, n) ==
  IF p.i > p.j \/ n = 0 THEN p
  ELSE IF n = 1 THEN sort_partition_step(p)
  ELSE sort_partition(sort_partition(p, n \div 2), n - (n \div 2))

\* qpos += 1; qstack[qpos] = {lo, hi}.  Past the end of qstack the
\* behaviour is undefined: as ub says, the entry is kept (the write went to
\* memory that nothing else uses), it is lost (what is read back is an
\* empty range), or the program is stopped.
sort_push(q, lo, hi, ub) ==
  IF q.err # "" THEN q
  ELSE IF Len(q.qstack) < QStackSize \/ ub = "kept"
  THEN [q EXCEPT !.qstack = Append(@, <<lo, hi>>)]
  ELSE IF ub = "lost" THEN [q EXCEPT !.qstack = Append(@, <<0, 0>>)]
  ELSE [q EXCEPT !.err = "stack smashing detected"]

\* one pass of the loop while (qpos >= 0) (runner.c:269-322)
sort_ascending_step(q, ub) ==
  IF q.qstack = << >> \/ q.err # "" THEN q
  ELSE
    LET lo == q.qstack[Len(q.qstack)][1]
        hi == q.qstack[Len(q.qstack)][2]
        popped == SubSeq(q.qstack, 1, Len(q.qstack) - 1)
    IN IF hi - lo < 15
       THEN [q EXCEPT !.qstack = popped, !.sort = sort_select(@, lo, hi)]
       ELSE
         LET p == sort_partition([sort |-> q.sort, i |-> lo, j |-> hi,
                                  pivot |-> q.sort[((lo + hi) \div 2) + 1].d],
                                 hi - lo + 1)
             q1 == [q EXCEPT !.qstack = popped, !.sort = p.sort]
             left == lo < p.j
             right == p.i < hi
         IN IF p.j > (lo + hi) \div 2
            THEN LET q2 == IF left THEN sort_push(q1, lo, p.j, ub) ELSE q1
                 IN IF right THEN sort_push(q2, p.i, hi, ub) ELSE q2
            ELSE LET q2 == IF right THEN sort_push(q1, p.i, hi, ub) ELSE q1
                 IN IF left THEN sort_push(q2, lo, p.j, ub) ELSE q2

\* n passes of the loop
RECURSIVE sort_ascending_loop(_, _, _)
sort_ascending_loop(q, ub, n) ==
  IF q.qstack = << >> \/ q.err # "" \/ n = 0 THEN q
  ELSE IF n = 1 THEN sort_ascending_step(q, ub)
  ELSE sort_ascending_loop(sort_ascending_loop(q, ub, n \div 2), ub,
                           n - (n \div 2))

\* runner_do_sort_ascending(sort, N): every pass of the loop sorts a range
\* or splits one, so that there are fewer than 2 N + 1 passes
runner_do_sort_ascending(sort, N, ub) ==
  sort_ascending_loop([sort |-> sort, qstack |-> <<<<0, N - 1>>>>,
                       err |-> ""], ub, 2 * N + 1)

\* the entry after the last one of every sort array
sort_sentinel == [d |-> FLT_MAX, i |-> 0]

\* a leaf: fill the array of direction j, add the sentinel and sort
\* (runner.c:443-463)
sort_leaf_fill(c, j) ==
  [k \in 1..(c.count + 1) |->
     IF k <= c.count THEN [d |-> sort_d(c.parts[k], j), i |-> k - 1]
     ELSE sort_sentinel]

\* off[k] of the progeny slot k (runner.c:381-385); the slots are 1..8 here
RECURSIVE sort_off(_, _, _)
sort_off(cs, c, k) ==
  IF k = 1 THEN 0
  ELSE sort_off(cs, c, k - 1) +
       (IF cs[c].progeny[k - 1] # 0
        THEN cs[cs[c].progeny[k - 1]].count ELSE 0)

\* the entry a finger points to: the entry f (from 0) of the array of
\* direction j of the progeny in slot k
sort_finger(cs, c, j, k, f) == cs[cs[c].progeny[k]].sort[j][f + 1]

\* buff[k] as initialised (runner.c:388-396)
sort_buff_init(cs, c, j) ==
  [k \in 1..8 |->
     IF cs[c].progeny[k] # 0 /\ cs[cs[c].progeny[k]].count > 0
     THEN sort_finger(cs, c, j, k, 0).d ELSE FLT_MAX]

\* "Sort the buffer": the two loops over i and k (runner.c:399-405)
RECURSIVE sort_inds_init(_, _, _, _)
sort_inds_init(buff, inds, i, k) ==
  IF i > 7 THEN inds
  ELSE IF k > 8 THEN sort_inds_init(buff, inds, i + 1, i + 2)
  ELSE IF buff[inds[k]] < buff[inds[i]]
  THEN sort_inds_init(buff, [inds EXCEPT ![i] = inds[k], ![k] = inds[i]],
                      i, k + 1)
  ELSE sort_inds_init(buff, inds, i, k + 1)

\* "Find the smallest entry" (runner.c:420-424)
RECURSIVE sort_inds_bubble(_, _, _)
sort_inds_bubble(buff, inds, k) ==
  IF k <= 8 /\ buff[inds[k]] < buff[inds[k - 1]]
  THEN sort_inds_bubble(buff,
                        [inds EXCEPT ![k - 1] = inds[k], ![k] = inds[k - 1]],
                        k + 1)
  ELSE inds

\* the merge of the arrays of the progeny (runner.c:409-426)
RECURSIVE sort_merge(_, _, _, _, _)
sort_merge(cs, c, j, m, ind) ==
  IF ind >= cs[c].count THEN m.out
  ELSE
    LET k0 == m.inds[1]
        ent == [d |-> m.buff[k0],
              i |-> sort_finger(cs, c, j, k0, m.fingers[k0]).i +
                    sort_off(cs, c, k0)]
        f1 == m.fingers[k0] + 1
        buff1 == [m.buff EXCEPT ![k0] = sort_finger(cs, c, j, k0, f1).d]
    IN sort_merge(cs, c, j,
                  [out |-> Append(m.out, ent),
                   fingers |-> [m.fingers EXCEPT ![k0] = f1],
                   buff |-> buff1,
                   inds |-> sort_inds_bubble(buff1, m.inds, 2)],
                  ind + 1)

\* the array of direction j of a split cell (runner.c:375-435)
sort_split(cs, c, j) ==
  LET buff == sort_buff_init(cs, c, j)
  IN Append(sort_merge(cs, c, j,
                       [out |-> << >>, fingers |-> [k \in 1..8 |-> 0],
                        buff |-> buff,
                        inds |-> sort_inds_init(buff, [k \in 1..8 |-> k],
                                                1, 2)],
                       0),
            sort_sentinel)

\* the directions of flags in ascending order, as for (j = 0; j < 13; j++)
sort_flags_seq(flags) ==
  (IF 4 \in flags THEN <<4>> ELSE << >>) \o
  (IF 10 \in flags THEN <<10>> ELSE << >>)

\* the loop over the directions of a leaf (runner.c:457-463)
RECURSIVE sort_leaf(_, _, _, _)
sort_leaf(w, c, js, ub) ==
  IF js = << >> \/ w.err # "" THEN w
  ELSE
    LET q == runner_do_sort_ascending(sort_leaf_fill(w.cells[c], Head(js)),
                                      w.cells[c].count, ub)
    IN IF q.err # "" THEN [w EXCEPT !.err = q.err]
       ELSE sort_leaf([w EXCEPT !.cells[c].sort[Head(js)] = q.sort,
                                !.cells[c].sorted = @ \cup {Head(js)}],
                      c, Tail(js), ub)

\* the loop over the directions of a split cell (runner.c:375-435)
RECURSIVE sort_merged(_, _, _)
sort_merged(w, c, js) ==
  IF js = << >> THEN w
  ELSE sort_merged([w EXCEPT !.cells[c].sort[Head(js)] =
                                sort_split(w.cells, c, Head(js)),
                             !.cells[c].sorted = @ \cup {Head(js)}],
                   c, Tail(js))

\* runner_do_sort(r, c, flags, clock) on the cells w.cells
RECURSIVE runner_do_sort(_, _, _, _)
RECURSIVE sort_progeny(_, _, _, _, _)
sort_progeny(w, c, flags, k, ub) ==
  IF k > 8 \/ w.err # "" THEN w
  ELSE
    LET p == w.cells[c].progeny[k]
        missing == IF p = 0 THEN {} ELSE flags \ w.cells[p].sorted
    IN sort_progeny(IF missing # {} THEN runner_do_sort(w, p, missing, ub)
                    ELSE w,
                    c, flags, k + 1, ub)

runner_do_sort(w, c, flags0, ub) ==
  LET flags == flags0 \ w.cells[c].sorted
  IN IF flags = {} \/ w.err # "" THEN w
     ELSE IF w.cells[c].split
     THEN LET w1 == sort_progeny(w, c, flags, 1, ub)
          IN IF w1.err # "" THEN w1
             ELSE sort_merged(w1, c, sort_flags_seq(flags))
     ELSE sort_leaf(w, c, sort_flags_seq(flags), ub)

\* a cell that has not been sorted: no bit of sorted is set, and what its
\* arrays then hold is not read
sort_cell(split, progeny, parts) ==
  [split |-> split, progeny |-> progeny, parts |-> parts,
   count |-> Len(parts), sorted |-> {},
   sort |-> [j \in SortDirs |-> << >>]]

NoProgeny == <<0, 0, 0, 0, 0, 0, 0, 0>>

\* the positions of the parts of the small leaves
SortPositions == {<<0, 1>>, <<1, 0>>, <<1, 1>>}

SortParts ==
  UNION {[1..n -> SortPositions] : n \in 0..MaxCount}

\* a split cell with two leaves in the slots 1 and 3 of its progeny
sort_tree(p2, p3) ==
  <<sort_cell(TRUE, <<2, 0, 3, 0, 0, 0, 0, 0>>, p2 \o p3),
    sort_cell(FALSE, NoProgeny, p2),
    sort_cell(FALSE, NoProgeny, p3)>>

\* leaves of one cell: MidCount parts in descending order of x, and
\* BigCount parts of which every two neighbours are exchanged in x
SortLeaves ==
  {<<sort_cell(FALSE, NoProgeny,
               Array([k \in 1..MidCount |->
                        <<MidCount - k, (7 * k) % MidCount>>]))>>,
   <<sort_cell(FALSE, NoProgeny,
               Array([k \in 1..BigCount |->
                        <<IF (k - 1) % 2 = 0 THEN k ELSE k - 2, k>>]))>>}

SortInit ==
  /\ \E cs \in {sort_tree(p2, p3) : p2 \in SortParts, p3 \in SortParts}
               \cup SortLeaves :
       call = [op |-> "runner_do_sort", cells |-> cs, err |-> ""]
  /\ NoLaunch

\* runner_do_sort(r, c, flags, 1)
sort_call(c, flags, ub) ==
  /\ call.op = "runner_do_sort" /\ call.err = ""
  /\ \E w \in {runner_do_sort([cells |-> call.cells, err |-> ""],
                              c, flags, ub)} :
       call' = [call EXCEPT !.cells = w.cells, !.err = w.err]
  /\ UNCHANGED launch_vars

SortNext ==
  \E c \in 1..Len(call.cells), flags \in (SUBSET SortDirs) \ {{}},
     ub \in {"kept", "lost", "stopped"} :
    sort_call(c, flags, ub)

SortSpec == SortInit /\ [][SortNext]_vars

\* C9: whenever a direction is in the sorted mask of a cell, the array of
\* the direction holds count entries in non-decreasing order of d, followed
\* by the sentinel, whose d is FLT_MAX.
C9_SortedArrays ==
  call.op = "runner_do_sort" =>
    \A c \in 1..Len(call.cells) : \A j \in call.cells[c].sorted :
      LET a == call.cells[c].sort[j]
          n == call.cells[c].count
      IN /\ Len(a) = n + 1
         /\ a[n + 1].d = FLT_MAX
         /\ \A k \in 1..(n - 1) : a[k].d <= a[k + 1].d

(***************************************************************************)
(* Properties of a launch.                                                 *)
(***************************************************************************)
Tasks == DOMAIN tasks

\* task t has been fetched by a runner and not yet passed to scheduler_done
running(t) == \E r \in Runners : runners[r].pc = "run" /\ runners[r].t = t

\* the safeguard is removed and waiting is back to 0
launch_over == main.pc \in {"wait", "returned"} /\ waiting = 0

\* the task is enqueued by the launch once its wait drops: it is not
\* skipped and its type and subtype are in the masks of the launch
launched(t) == ~tasks[t].skip /\ in_masks(masks, tasks[t])

\* C1: once engine_launch has started a launch, waiting returns to 0, every
\* runner gets NULL from scheduler_gettask and is back in the barrier, and
\* engine_launch returns.
C1_LaunchReturns ==
  (main.pc # "idle") ~>
     (/\ main.pc = "returned" /\ waiting = 0
      /\ \A r \in Runners : runners[r].pc = "barrier")

SuperCells ==
  {c \in Cells : /\ cells[c].links.super = c
                 /\ e.s.nodeID[c] = e.nodeID
                 /\ cells[c].links.ghost # NULL}

\* the tasks of a loop ("density" or "force") linked to a cell of super c
linked(c, loop) ==
  UNION {SeqToSet(cells[d].links[loop]) :
           d \in {x \in Cells : cells[x].links.super = c}}

density_before_ghost(c) ==
  hist[cells[c].links.ghost].started > 0 =>
    \A t \in linked(c, "density") : ~tasks[t].skip => hist[t].finished > 0

force_before_kick(c) ==
  (cells[c].links.kick # NULL /\ hist[cells[c].links.kick].started > 0) =>
    \A t \in linked(c, "force") : ~tasks[t].skip => hist[t].finished > 0

\* C3 as stated: the ghost of a local super cell c starts after the
\* non-skipped density tasks linked to c, every force task linked to c after
\* the ghost of c, and the kick of c after the non-skipped force tasks.
C3_GhostForceKick ==
  \A c \in SuperCells :
    /\ density_before_ghost(c)
    /\ \A t \in linked(c, "force") :
         hist[t].started > 0 => hist[cells[c].links.ghost].finished > 0
    /\ force_before_kick(c)

\* C3, amended: as stated, but a force task linked to c waits for the ghost
\* of c only when that ghost is not marked skip.
C3_GhostUnlessSkipped ==
  \A c \in SuperCells :
    /\ density_before_ghost(c)
    /\ \A t \in linked(c, "force") :
         (hist[t].started > 0 /\ ~tasks[cells[c].links.ghost].skip)
           => hist[cells[c].links.ghost].finished > 0
    /\ force_before_kick(c)

\* the kick of a super cell has started, after its ghost and a force task
C3_Witness ==
  \E c \in SuperCells :
    /\ cells[c].links.kick # NULL /\ hist[cells[c].links.kick].started > 0
    /\ hist[cells[c].links.ghost].finished > 0
    /\ \E t \in linked(c, "force") : hist[t].finished > 0

\* the cells whose lock a task has from task_lock to task_unlock, and which
\* of the two locks of a cell it is
locked_cells(t) ==
  IF tasks[t].type \in {"sort", "self", "sub_self", "grav_mm"}
  THEN {tasks[t].ci}
  ELSE IF tasks[t].type \in {"pair", "sub_pair"}
  THEN {tasks[t].ci, tasks[t].cj}
  ELSE {}

locks_gparts(t) == tasks[t].subtype = "grav" \/ tasks[t].type = "grav_mm"

\* C4: no two running tasks hold the lock of the same cell.
C4_NoSharedLock ==
  \A t1, t2 \in Tasks :
    (t1 # t2 /\ running(t1) /\ running(t2)
       /\ locks_gparts(t1) = locks_gparts(t2))
      => locked_cells(t1) \cap locked_cells(t2) = {}

\* C6: when engine_launch has returned, waiting is 0, barrier_launch and
\* barrier_running are 0 and every runner is in the barrier.
C6_ReturnAfterRunners ==
  main.pc = "returned" =>
    /\ waiting = 0
    /\ barrier.launch = 0 /\ barrier.running = 0
    /\ \A r \in Runners : runners[r].pc = "barrier"

\* engine_launch has returned from a launch in which both of two runners
\* executed tasks
C6_Witness ==
  /\ main.pc = "returned"
  /\ args.nr_runners = 2
  /\ \E t \in Tasks : hist[t].finished = 1

\* the cells of a task, and the cells of the engine's own node
task_cells(t) == {tasks[t].ci, tasks[t].cj} \ {NULL}
local(c) == e.s.nodeID[c] = e.nodeID

unlocks_of(P, t) ==
  UNION {{<<u, k>> : k \in {j \in 1..Len(tasks[u].unlock_tasks) :
                                  tasks[u].unlock_tasks[j] = t}} : u \in P}

\* scheduler_start is past its rewait map and has not yet decremented a wait
rewait_done == err = "" /\ main.pc = "enqueue" /\ main.ind = 1

\* C15 as stated: between the rewait map and the enqueue map of
\* scheduler_start the wait of every task is 1 plus the number of tasks not
\* marked skip that have it in their unlock list.
C15_WaitIsInDegree ==
  rewait_done =>
    \A t \in Tasks :
      tasks[t].wait =
        1 + Cardinality({u \in Tasks : /\ ~tasks[u].skip
                                       /\ unlocks_of({u}, t) # {}})

\* C15, amended: between the rewait map and the enqueue map of
\* scheduler_start the wait of every task is 1 plus the number of entries
\* that unlock it in the unlock lists of the tasks that are not marked skip
\* and whose type and subtype are in the masks.
C15_WaitIsLaunchedInDegree ==
  rewait_done =>
    \A t \in Tasks :
      tasks[t].wait =
        1 + Cardinality(unlocks_of({u \in Tasks : launched(u)}, t))

\* the rewait map is over: a task waits for another one, and a task that is
\* not skipped but outside the masks has a task to unlock
C15_Witness ==
  /\ rewait_done
  /\ \E t \in Tasks : tasks[t].wait >= 2
  /\ \E u \in Tasks : /\ ~tasks[u].skip /\ ~in_masks(masks, tasks[u])
                       /\ tasks[u].unlock_tasks # << >>

\* the tasks that are in a queue
queued == UNION {BagToSet(queues[q]) : q \in Queues}

\* engine_launch has incremented waiting and not yet decremented it
safeguard == main.pc \in {"enqueue", "broadcast", "safeguard"}

\* the launch has still to enqueue task t: it is to be executed and was in
\* no queue yet
to_enqueue(t) ==
  /\ main.pc \notin {"idle", "returned"}
  /\ launched(t) /\ ~tasks[t].implicit
  /\ t \notin queued /\ hist[t].started = 0

C17_NoNegativeWait ==
  /\ err # "Negative wait!"
  /\ (err = "" /\ main.pc # "idle") => \A t \in Tasks : tasks[t].wait >= 0

\* a task has been completed and has decremented a wait while
\* scheduler_start is still in its enqueue map, with a skipped task in the
\* graph
C17_Witness ==
  /\ err = "" /\ main.pc = "enqueue" /\ main.ind <= Len(tasks_ind)
  /\ \E t \in Tasks : /\ hist[t].finished = 1
                       /\ tasks[t].unlock_tasks # << >>
  /\ \E t \in Tasks : tasks[t].skip

\* the launch is under way: scheduler_start has set the waits
in_launch == err = "" /\ main.pc # "idle"

\* the enqueue map of scheduler_start has still to decrement the wait of t
sentinel(t) ==
  /\ main.pc = "enqueue"
  /\ \E i \in main.ind..Len(tasks_ind) : tasks_ind[i] = t

\* task u of the launch is over: it was executed or, if it is implicit, it
\* was ready and passed on
completed(u) ==
  /\ launched(u)
  /\ IF tasks[u].implicit THEN tasks[u].wait = 0 ELSE hist[u].finished = 1

\* what the wait of t is when only the tasks of the launch that are not
\* over hold it back, each once for each entry of its unlock list
wait_of(t) ==
  (IF sentinel(t) THEN 1 ELSE 0)
  + Cardinality(unlocks_of({u \in Tasks : launched(u) /\ ~completed(u)}, t))

\* C18: an implicit task is never in a queue nor executed and adds nothing
\* to waiting; once it is ready (its wait is 0) the wait of each task it
\* unlocks has been decremented once for it, and such a task is in a queue
\* or executed as soon as its own wait is 0, or has passed on likewise.
C18_ImplicitPassesOn ==
  in_launch =>
    \A t \in Tasks : tasks[t].implicit =>
      /\ t \notin queued /\ hist[t].started = 0 /\ req[t] = "none"
      /\ waiting = Cardinality(queued \ {t})
                     + Cardinality({u \in Tasks \ {t} : running(u)})
                     + (IF safeguard THEN 1 ELSE 0)
      /\ (launched(t) /\ tasks[t].wait = 0) =>
            \A k \in 1..Len(tasks[t].unlock_tasks) :
              LET t2 == tasks[t].unlock_tasks[k]
              IN /\ tasks[t2].wait = wait_of(t2)
                 /\ (launched(t2) /\ ~tasks[t2].implicit
                                  /\ tasks[t2].wait = 0)
                      => (t2 \in queued \/ hist[t2].started = 1)

\* an implicit task that a finished task unlocks was ready and has passed on
\* to another implicit task, and that one to a task that is now running
C18_Witness ==
  /\ in_launch
  /\ \E t \in Tasks :
       /\ tasks[t].implicit /\ launched(t) /\ tasks[t].wait = 0
       /\ \E u \in Tasks : hist[u].finished = 1 /\ unlocks_of({u}, t) # {}
       /\ \E k \in 1..Len(tasks[t].unlock_tasks) :
            LET t2 == tasks[t].unlock_tasks[k]
            IN /\ tasks[t2].implicit /\ launched(t2) /\ tasks[t2].wait = 0
               /\ \E j \in 1..Len(tasks[t2].unlock_tasks) :
                    running(tasks[t2].unlock_tasks[j])

\* the type or the subtype of task t is not in the masks of the launch
outside_masks(t) ==
  tasks[t].type \notin masks.mask \/ tasks[t].subtype \notin masks.submask

\* C20: a task outside the masks never changes the wait of a task in its
\* unlock list: at every moment of a launch the wait of every task is made
\* up of the decrement that the enqueue map still owes it and of the
\* unlock entries of the tasks inside the masks that are not skipped and
\* not over; the tasks outside the masks have no part in it.
C20_MaskedLeavesWaits ==
  in_launch =>
    \A t \in Tasks :
      tasks[t].wait =
        (IF sentinel(t) THEN 1 ELSE 0)
        + Cardinality(unlocks_of({u \in Tasks : /\ ~outside_masks(u)
                                                /\ ~tasks[u].skip
                                                /\ ~completed(u)}, t))

\* the launch is over, and a task that is not skipped but outside the masks
\* has in its unlock list a task that was executed
C20_Witness ==
  /\ launch_over /\ err = ""
  /\ \E u \in Tasks :
       /\ outside_masks(u) /\ ~tasks[u].skip
       /\ \E k \in 1..Len(tasks[u].unlock_tasks) :
            hist[tasks[u].unlock_tasks[k]].finished = 1

(***************************************************************************)
(* The sleep of the runners in scheduler_gettask, the safeguard of         *)
(* engine_launch, the barrier and the stealing.                            *)
(***************************************************************************)
\* runner r waits in pthread_cond_wait on sleep_cond
asleep(r) == r \in Runners /\ runners[r].pc = "asleep"

\* a task that a runner would get sits in a queue
task_to_take == \E q \in Queues : gettable(q) # {}

\* C21: a runner asleep on sleep_cond while a task that it could take is in
\* a queue, or while waiting is 0, is woken: it does not sleep forever.
C21_NoLostWakeup ==
  \A r \in 0..(NrThreads - 1) :
    (asleep(r) /\ err = "" /\ (waiting = 0 \/ task_to_take)) ~> ~asleep(r)

\* the barrier is open and engine_launch has not yet removed its safeguard:
\* scheduler_start enqueues the tasks that are ready, or has just done so
safeguarded == main.pc \in {"enqueue", "broadcast", "safeguard"}

\* C22: from the opening of the barrier until scheduler_start has enqueued
\* the tasks that are ready, waiting is at least 1, and no runner that has
\* passed the barrier is back in it: scheduler_gettask has not returned NULL.
C22_SafeguardHolds ==
  safeguarded =>
    /\ waiting >= 1
    /\ \A r \in Runners :
         runners[r].passes >= 1 =>
           runners[r].pc # "barrier" /\ runners[r].passes = 1

\* scheduler_start has not enqueued all tasks yet, no task is in a queue or
\* running, and a runner that has passed the barrier is in
\* scheduler_gettask: only the safeguard keeps waiting from being 0
C22_Witness ==
  /\ main.pc = "enqueue" /\ err = "" /\ waiting = 1
  /\ \E r \in Runners :
       /\ runners[r].passes = 1
       /\ runners[r].pc \in {"gettask", "nap", "napping", "asleep"}

\* C23: during a launch with nr_runners = N every runner with an id below N
\* passes the barrier exactly once, and no other runner passes it: no runner
\* is ever past its one pass, and when engine_launch returns every runner
\* with an id below N has made it.
C23_PassOnce ==
  /\ \A r \in Runners :
       runners[r].passes <= (IF r < args.nr_runners THEN 1 ELSE 0)
  /\ main.pc = "returned" =>
       \A r \in Runners : r < args.nr_runners => runners[r].passes = 1

\* C30: in a build with MPI no runner gets a task out of queue 0 or queue 1
\* in its loop over the queues unless the queue is its own.
C30_NoStealFromMPI ==
  [][\A r \in Runners, q \in Queues :
       (/\ e.with_mpi /\ q <= 1
        /\ runners[r].pc = "gettask" /\ runners'[r].pc = "run"
        /\ queues'[q] # queues[q])
         => q = runner_qid(r)]_vars

\* the tasks of the loops over the particles
LoopTypes == {"self", "pair", "sub_self", "sub_pair"}

\* C32: a density task that is not skipped and has a foreign cell with
\* recv tasks starts only when the recv_xv task of that cell has completed,
\* and such a force task only when its recv_rho task has completed.
C32_RecvBeforeLoops ==
  \A t \in Tasks, c \in Cells :
    (/\ c \in task_cells(t) /\ ~local(c)
     /\ tasks[t].type \in LoopTypes /\ ~tasks[t].skip
     /\ hist[t].started > 0) =>
      /\ (tasks[t].subtype = "density" /\ cells[c].links.recv_xv # NULL)
            => hist[cells[c].links.recv_xv].finished > 0
      /\ (tasks[t].subtype = "force" /\ cells[c].links.recv_rho # NULL)
            => hist[cells[c].links.recv_rho].finished > 0

\* a force task on a foreign cell runs, after the recv_rho task of the cell
C32_Witness ==
  \E t \in Tasks, c \in Cells :
    /\ c \in task_cells(t) /\ ~local(c)
    /\ tasks[t].type = "pair" /\ tasks[t].subtype = "force"
    /\ running(t)
    /\ cells[c].links.recv_rho # NULL
    /\ hist[cells[c].links.recv_rho].finished = 1

\* the kick task of the super cell of cell c
super_kick(c) == cells[cells[c].links.super].links.kick

\* the send tasks of subtype tend, whose request is there once they are
\* enqueued
SendsTend ==
  {t \in Tasks : tasks[t].type = "send" /\ tasks[t].subtype = "tend"}

\* C33 as stated: a send task of subtype tend is enqueued, and its send
\* posted, only when the kick of the super cell of its cell has completed
\* in this launch.
C33_SendTendAfterKick ==
  \A t \in SendsTend :
    req[t] # "none" => hist[super_kick(tasks[t].ci)].finished > 0

\* C33, amended: the same when that kick is launched, that is not skipped
\* and in the mask of the launch; when it is skipped or masked out the send
\* is posted without it.
C33_SendTendAfterLaunchedKick ==
  \A t \in SendsTend :
    (req[t] # "none" /\ launched(super_kick(tasks[t].ci)))
      => hist[super_kick(tasks[t].ci)].finished > 0

\* the send of the time step ends is posted after the kick has run
C33_Witness ==
  \E t \in SendsTend :
    /\ req[t] = "posted" /\ launched(super_kick(tasks[t].ci))
    /\ hist[super_kick(tasks[t].ci)].finished = 1

\* the pair tasks of the hydrodynamics
HydroPairs ==
  {t \in Tasks : tasks[t].type = "pair" /\ tasks[t].subtype # "grav"}

\* the direction of a pair task: the sort id in the flags of the density
\* pair on its two cells (the pairs of the other loops are made on the
\* cells of a density pair, with flags 0)
pair_sid(t) ==
  LET d == {u \in HydroPairs : /\ tasks[u].subtype = "density"
                               /\ tasks[u].ci = tasks[t].ci
                               /\ tasks[u].cj = tasks[t].cj}
  IN IF d = {} THEN tasks[t].flags
     ELSE tasks[CHOOSE u \in d : \A v \in d : u <= v].flags

\* C34: when a pair task of the hydrodynamics that is not skipped is
\* started, its two cells are sorted in the direction of the pair: the bit
\* of that direction is set in c->sorted of both.
C34_SortedBeforePair ==
  \A t \in HydroPairs :
    (~tasks[t].skip /\ hist[t].started > 0) =>
      /\ pair_sid(t) \in BitSet(cells[tasks[t].ci].sorted)
      /\ pair_sid(t) \in BitSet(cells[tasks[t].cj].sorted)

\* a pair task runs on two cells that were not sorted before the launch and
\* whose sort tasks have run
C34_Witness ==
  \E t \in HydroPairs :
    /\ running(t) /\ ~tasks[t].skip
    /\ \A c \in task_cells(t) :
         /\ cells[c].links.sorts # NULL
         /\ hist[cells[c].links.sorts].finished = 1
         /\ pair_sid(t) \in BitSet(cells[c].sorted)

(***************************************************************************)
(* scheduler_set_unlocks called on its own, on MaxTasks tasks and on a     *)
(* buffer of up to MaxEdges unlocks in any order, the same unlock more     *)
(* than once included.                                                     *)
(***************************************************************************)
MaxEdges == 3

RECURSIVE EdgeSeqs(_)
EdgeSeqs(n) ==
  IF n = 0 THEN {<< >>}
  ELSE LET shorter == EdgeSeqs(n - 1)
       IN shorter \cup {Append(u, uv) : u \in {w \in shorter : Len(w) = n - 1},
                                         uv \in AnyEdges}

SetUnlocksInit ==
  /\ \E unlocks \in EdgeSeqs(MaxEdges) :
       call = [op |-> "scheduler_set_unlocks",
               tasks |-> dag_tasks(scheduler_reset, 1, FALSE).tasks,
               unlocks |-> unlocks, slices |-> << >>, ret |-> "none"]
  /\ NoLaunch

set_unlocks_call ==
  /\ call.op = "scheduler_set_unlocks" /\ call.ret = "none"
  /\ call' = [call EXCEPT
                !.tasks = scheduler_set_unlocks(call.tasks, call.unlocks),
                !.slices = unlock_slices(call.tasks, call.unlocks),
                !.ret = "returned"]
  /\ UNCHANGED launch_vars

SetUnlocksSpec == SetUnlocksInit /\ [][set_unlocks_call]_vars

\* the indices of s->unlocks that the slice of task k covers
slice_range(k) ==
  call.slices[k].first .. (call.slices[k].first + call.slices[k].count - 1)

NrCallers == 3
MaxUnlocks == 6
scheduler_init_nr_unlocks == 2

Callers == 1..NrCallers
NoEdge == << >>

AddunlockInit ==
  /\ call = [op |-> "scheduler_addunlock",
             nr_unlocks |-> 0, size_unlocks |-> scheduler_init_nr_unlocks,
             completed_unlock_writes |-> 0,
             unlocks |-> [i \in 0..(scheduler_init_nr_unlocks - 1) |-> NoEdge],
             callers |-> [k \in Callers |->
                            [pc |-> "idle", ind |-> 0, size_new |-> 0,
                             edge |-> NoEdge]],
             writes |-> {}, recorded |-> {}, beyond |-> {}, err |-> ""]
  /\ NoLaunch

in_addunlock(k, pc) ==
  /\ call.op = "scheduler_addunlock" /\ call.err = ""
  /\ call.callers[k].pc = pc

\* const int ind = atomic_inc(&s->nr_unlocks);  The unlock is from the task
\* of the caller to a task that changes with the index.
addunlock_inc(k) ==
  /\ in_addunlock(k, "idle")
  /\ call.nr_unlocks < MaxUnlocks
  /\ call' = [call EXCEPT
                !.nr_unlocks = @ + 1,
                !.callers[k] = [pc |-> "check", ind |-> call.nr_unlocks,
                                size_new |-> 0,
                                edge |-> <<k, 1 + (call.nr_unlocks % MaxTasks)>>]]
  /\ UNCHANGED launch_vars

\* if (ind == s->size_unlocks), and the new size of the one who grows
addunlock_check(k) ==
  /\ in_addunlock(k, "check")
  /\ call' = IF call.callers[k].ind = call.size_unlocks
             THEN [call EXCEPT !.callers[k].pc = "grow",
                               !.callers[k].size_new = call.size_unlocks * 2]
             ELSE [call EXCEPT !.callers[k].pc = "wait"]
  /\ UNCHANGED launch_vars

\* while (s->completed_unlock_writes < ind);
addunlock_grow_wait(k) ==
  /\ in_addunlock(k, "grow")
  /\ ~(call.completed_unlock_writes < call.callers[k].ind)
  /\ call' = [call EXCEPT !.callers[k].pc = "copy"]
  /\ UNCHANGED launch_vars

\* the two memcpy of ind entries, and the new buffers put in the scheduler
addunlock_copy(k) ==
  /\ in_addunlock(k, "copy")
  /\ call' = [call EXCEPT
                !.unlocks = [i \in 0..(call.callers[k].size_new - 1) |->
                               IF i < call.callers[k].ind /\ i \in DOMAIN @
                               THEN @[i] ELSE NoEdge],
                !.callers[k].pc = "publish"]
  /\ UNCHANGED launch_vars

\* s->size_unlocks = size_unlocks_new;
addunlock_publish(k) ==
  /\ in_addunlock(k, "publish")
  /\ call' = [call EXCEPT !.size_unlocks = call.callers[k].size_new,
                          !.callers[k].pc = "wait"]
  /\ UNCHANGED launch_vars

\* while (ind > s->size_unlocks);
addunlock_wait(k) ==
  /\ in_addunlock(k, "wait")
  /\ ~(call.callers[k].ind > call.size_unlocks)
  /\ call' = [call EXCEPT !.callers[k].pc = "write"]
  /\ UNCHANGED launch_vars

\* s->unlocks[ind] = tb; s->unlock_ind[ind] = ta - s->tasks;  A write past
\* the end of the buffers is undefined: what is written may be read back
\* later from there, or be lost, or the program may be stopped.
addunlock_write(k) ==
  /\ in_addunlock(k, "write")
  /\ LET c == call.callers[k]
         w == [ind |-> c.ind, size |-> Cardinality(DOMAIN call.unlocks)]
     IN IF c.ind \in DOMAIN call.unlocks
        THEN call' = [call EXCEPT !.unlocks[c.ind] = c.edge,
                                  !.writes = @ \cup {w},
                                  !.callers[k].pc = "inc"]
        ELSE \E ub \in {"kept", "lost", "stopped"} :
               call' = [call EXCEPT
                          !.writes = @ \cup {w},
                          !.beyond = IF ub = "kept"
                                     THEN @ \cup {<<c.ind, c.edge>>} ELSE @,
                          !.err = IF ub = "stopped"
                                  THEN "write past the end of unlocks"
                                  ELSE @,
                          !.callers[k].pc = "inc"]
  /\ UNCHANGED launch_vars

\* atomic_inc(&s->completed_unlock_writes); and the return
addunlock_done(k) ==
  /\ in_addunlock(k, "inc")
  /\ call' = [call EXCEPT
                !.completed_unlock_writes = @ + 1,
                !.recorded = @ \cup {<<call.callers[k].ind,
                                       call.callers[k].edge>>},
                !.callers[k].pc = "idle"]
  /\ UNCHANGED launch_vars

AddunlockNext ==
  \/ \E k \in Callers : addunlock_inc(k)
  \/ \E k \in Callers : addunlock_check(k)
  \/ \E k \in Callers : addunlock_grow_wait(k)
  \/ \E k \in Callers : addunlock_copy(k)
  \/ \E k \in Callers : addunlock_publish(k)
  \/ \E k \in Callers : addunlock_wait(k)
  \/ \E k \in Callers : addunlock_write(k)
  \/ \E k \in Callers : addunlock_done(k)

AddunlockSpec == AddunlockInit /\ [][AddunlockNext]_vars

\* every thread that is inside scheduler_addunlock goes on running
AddunlockFairness ==
  \A k \in Callers :
    WF_vars(\/ addunlock_check(k) \/ addunlock_grow_wait(k)
            \/ addunlock_copy(k) \/ addunlock_publish(k)
            \/ addunlock_wait(k) \/ addunlock_write(k) \/ addunlock_done(k))

FairAddunlockSpec == AddunlockSpec /\ AddunlockFairness

\* C26: the one who grows the buffer copies it only when every entry below
\* the old size is written, nobody writes at an index the published size
\* does not allow, the size is doubled by one caller at a time, and the
\* edge of every call that has returned is still where it was recorded.
C26_NoEdgeLost ==
  call.op = "scheduler_addunlock" =>
    /\ \A k \in Callers :
         call.callers[k].pc = "publish" =>
           \A i \in 0..(call.callers[k].ind - 1) : call.unlocks[i] # NoEdge
    /\ \A k \in Callers :
         call.callers[k].pc = "write" =>
           call.callers[k].ind <= call.size_unlocks
    /\ Cardinality({k \in Callers :
                      call.callers[k].pc \in {"grow", "copy", "publish"}}) <= 1
    /\ \A r \in call.recorded :
         \/ r[1] \in DOMAIN call.unlocks /\ call.unlocks[r[1]] = r[2]
         \/ r \in call.beyond

\* C27: every write of scheduler_addunlock is at an index below the size
\* of the buffers it writes into.
C27_WritesInBounds ==
  call.op = "scheduler_addunlock" =>
    \A w \in call.writes : w.ind < w.size

\* C28: every call of scheduler_addunlock returns.
C28_AddunlockReturns ==
  \A k \in 1..NrCallers :
    (in_addunlock(k, "check") \/ in_addunlock(k, "wait")
       \/ in_addunlock(k, "grow"))
      ~> (call.callers[k].pc = "idle" \/ call.err # "")

(***************************************************************************)
(* The launches of a build with MPI on the graphs of a send task, a self   *)
(* task and a recv task, with one queue, with a queue for each of two      *)
(* runners, and with more queues than runners, so that the second runner   *)
(* has a queue other than 0 and 1; the scheduler steals or not.  The       *)
(* threads are scheduled fairly.                                           *)
(***************************************************************************)
RECURSIVE mpi_tasks(_, _)
mpi_tasks(b, i) ==
  IF i > MaxTasks THEN b
  ELSE mpi_tasks(IF i = 1
                 THEN scheduler_addtask(b, "send", "none", i, 0, 1, NULL, FALSE)
                 ELSE IF i = MaxTasks
                 THEN scheduler_addtask(b, "recv", "none", i, 0, 2, NULL, FALSE)
                 ELSE scheduler_addtask(b, "self", "density", 0, 0, 1, NULL,
                                        FALSE),
                 i + 1)

MpiGraph(edges) ==
  maketasks_ranked(dag_unlocks(mpi_tasks(scheduler_reset, 1), edges, 1))

MpiLaunches ==
  [engine : {"dag_mpi"}, with_mpi : {TRUE}, active : {AllActive},
   presorted : {FALSE}, launch : {"step"},
   nr_threads : 1..NrThreads, nr_queues : {1, NrQueues, 2 * NrQueues},
   edges : SUBSET DagEdges, skip : {NoSkip}]

MpiInit ==
  /\ call = NoCall
  /\ \E l \in MpiLaunches, steal \in BOOLEAN :
       \E g \in {MpiGraph(l.edges)} :
         InitLaunchFlags(l, EngineDagMPI, g, steal)

MpiSpec == MpiInit /\ [][Next]_vars /\ Fairness

\* a send or recv task is in a queue
comm_pending ==
  \E q \in Queues : \E t \in BagToSet(queues[q]) :
    tasks[t].type \in {"send", "recv"}

runner_shift ==
  << <<1, 1, 1>>, <<1, 1, 0>>, <<1, 1, -1>>, <<1, 0, 1>>, <<1, 0, 0>>,
     <<1, 0, -1>>, <<1, -1, 1>>, <<1, -1, 0>>, <<1, -1, -1>>, <<0, 1, 1>>,
     <<0, 1, 0>>, <<0, 1, -1>>, <<0, 0, 1>> >>

Directions == {d \in {-1, 0, 1} \X {-1, 0, 1} \X {-1, 0, 1} : d # <<0, 0, 0>>}

vec_sub(a, b) == <<a[1] - b[1], a[2] - b[2], a[3] - b[3]>>
vec_add(a, b) == <<a[1] + b[1], a[2] + b[2], a[3] + b[3]>>
vec_neg(a) == <<-a[1], -a[2], -a[3]>>

\* the index into runner_flip and sortlistID of a relative position
shift_index(d) == (d[3] + 1) + 3 * ((d[2] + 1) + 3 * (d[1] + 1))

\* runner_flip: the first 13 relative positions are swapped
runner_flip(i) == IF i < 13 THEN 1 ELSE 0

\* space_getsid: the sort id of two touching cells, and the two cells in
\* the order of the direction of that id
space_getsid(ci, cj) ==
  LET d == vec_sub(cj, ci)
      flip == runner_flip(shift_index(d)) = 1
      dir == IF flip THEN vec_neg(d) ELSE d
  IN [sid |-> (CHOOSE k \in 1..13 : runner_shift[k] = dir) - 1,
      ci |-> IF flip THEN cj ELSE ci,
      cj |-> IF flip THEN ci ELSE cj]

NoCell == << >>

\* the octant of progeny k within its parent
progeny_offset(k) == <<(k \div 4) % 2, (k \div 2) % 2, k % 2>>

\* c->progeny[k] of the cell at loc, NULL when the octant has no particles
progeny(loc, empty, k) ==
  IF k \in empty THEN NoCell ELSE vec_add(loc, progeny_offset(k))

\* every direction has the corner child and gives it the parent's id
splittask_switch_corner(sid) == << <<sid, 7, 0>> >>

\* the switch on sid: the flags and the progeny of ci and of cj of the
\* recycled task, first, and of the tasks added, in the order of the code
splittask_switch(sid) ==
  CASE sid = 0 ->
         << <<0, 7, 0>> >>
    [] sid = 1 ->
         << <<1, 6, 0>>, <<1, 7, 1>>, <<0, 6, 1>>, <<2, 7, 0>> >>
    [] sid = 2 ->
         << <<2, 6, 1>> >>
    [] sid = 3 ->
         << <<3, 5, 0>>, <<3, 7, 2>>, <<0, 5, 2>>, <<6, 7, 0>> >>
    [] sid = 4 ->
         << <<4, 4, 0>>, <<5, 5, 0>>, <<7, 6, 0>>, <<8, 7, 0>>, <<3, 4, 1>>,
            <<4, 5, 1>>, <<6, 6, 1>>, <<7, 7, 1>>, <<1, 4, 2>>, <<2, 5, 2>>,
            <<4, 6, 2>>, <<5, 7, 2>>, <<0, 4, 3>>, <<1, 5, 3>>, <<3, 6, 3>>,
            <<4, 7, 3>> >>
    [] sid = 5 ->
         << <<5, 4, 1>>, <<5, 6, 3>>, <<2, 4, 3>>, <<8, 6, 1>> >>
    [] sid = 6 ->
         << <<6, 5, 2>> >>
    [] sid = 7 ->
         << <<6, 4, 3>>, <<8, 5, 2>>, <<7, 4, 2>>, <<7, 5, 3>> >>
    [] sid = 8 ->
         << <<8, 4, 3>> >>
    [] sid = 9 ->
         << <<9, 3, 0>>, <<9, 7, 4>>, <<0, 3, 4>>, <<8, 7, 0>> >>
    [] sid = 10 ->
         << <<10, 2, 0>>, <<11, 3, 0>>, <<7, 6, 0>>, <<6, 7, 0>>,
            <<9, 2, 1>>, <<10, 3, 1>>, <<8, 6, 1>>, <<7, 7, 1>>, <<1, 2, 4>>,
            <<2, 3, 4>>, <<10, 6, 4>>, <<11, 7, 4>>, <<0, 2, 5>>,
            <<1, 3, 5>>, <<9, 6, 5>>, <<10, 7, 5>> >>
    [] sid = 11 ->
         << <<11, 2, 1>>, <<11, 6, 5>>, <<2, 2, 5>>, <<6, 6, 1>> >>
    [] sid = 12 ->
         << <<12, 1, 0>>, <<11, 3, 0>>, <<5, 5, 0>>, <<2, 7, 0>>,
            <<9, 1, 2>>, <<12, 3, 2>>, <<8, 5, 2>>, <<5, 7, 2>>, <<3, 1, 4>>,
            <<6, 3, 4>>, <<12, 5, 4>>, <<11, 7, 4>>, <<0, 1, 6>>,
            <<3, 3, 6>>, <<9, 5, 6>>, <<12, 7, 6>> >>

\* the test for a task that cannot be split, which the recycled task meets
\* when the loop is redone and an added task when scheduler_splittask is
\* called on it; the cells of the children are not split and their tasks
\* keep their flags
splittask_child(t) ==
  IF t.ci = NoCell \/ t.cj = NoCell
  THEN [t EXCEPT !.type = "none", !.skip = TRUE]
  ELSE t

\* the progeny of a cell are cells of half its width
progeny_cell(c, empty, k) ==
  IF progeny(c.loc, empty, k) = NoCell THEN NoCell
  ELSE [loc |-> progeny(c.loc, empty, k), width |-> c.width \div 2]

\* the relative position of two cells of the same width, in cell widths
cell_shift(ci, cj) ==
  <<(cj.loc[1] - ci.loc[1]) \div ci.width,
    (cj.loc[2] - ci.loc[2]) \div ci.width,
    (cj.loc[3] - ci.loc[3]) \div ci.width>>

\* the sort id of the two cells of a task and the cells in its order
cells_getsid(ci, cj) ==
  LET g == space_getsid(<<0, 0, 0>>, cell_shift(ci, cj))
  IN [sid |-> g.sid,
      ci |-> IF g.ci = <<0, 0, 0>> THEN ci ELSE cj,
      cj |-> IF g.ci = <<0, 0, 0>> THEN cj ELSE ci]

\* scheduler_splittask on the pair t of two split cells that is neither
\* foreign nor made a sub_pair: the recycled task and the tasks added
splittask_pair_split(t, empty) ==
  LET g == cells_getsid(t.ci, t.cj)
      sw == splittask_switch(g.sid)
      ei == IF g.ci = t.ci THEN empty ELSE {}
      ej == IF g.cj = t.ci THEN empty ELSE {}
  IN [k \in 1..Len(sw) |->
        splittask_child([type |-> "pair", subtype |-> t.subtype,
                         flags |-> sw[k][1],
                         ci |-> progeny_cell(g.ci, ei, sw[k][2]),
                         cj |-> progeny_cell(g.cj, ej, sw[k][3]),
                         skip |-> FALSE])]

\* no progeny of ci is NULL, or one is
EmptyProgeny == {{}} \cup {{k} : k \in 0..7}

SplitInit ==
  /\ \E d \in Directions, empty \in EmptyProgeny :
       call = [op |-> "scheduler_splittask",
               t |-> [type |-> "pair", subtype |-> "density",
                      flags |-> space_getsid(<<0, 0, 0>>, d).sid,
                      ci |-> [loc |-> <<0, 0, 0>>, width |-> 2],
                      cj |-> [loc |-> <<2 * d[1], 2 * d[2], 2 * d[3]>>,
                              width |-> 2],
                      skip |-> FALSE],
               empty |-> empty, children |-> << >>, ret |-> "none"]
  /\ NoLaunch

splittask_call ==
  /\ call.op = "scheduler_splittask" /\ call.ret = "none"
  /\ call' = [call EXCEPT
                !.children = splittask_pair_split(call.t, call.empty),
                !.ret = "returned"]
  /\ UNCHANGED launch_vars

SplitSpec == SplitInit /\ [][splittask_call]_vars

\* two cells of the same width that are not the same cell touch
touching(ci, cj) ==
  /\ ci.width = cj.width
  /\ cell_shift(ci, cj) \in Directions
  /\ \A x \in 1..3 : (cj.loc[x] - ci.loc[x]) % ci.width = 0

MaxCdim == 3

cell_getid(cdim, i, j, k) == k + cdim[3] * (j + cdim[2] * i)

\* the coordinates of cell cid
cell_coords(cdim, cid) ==
  <<cid \div (cdim[2] * cdim[3]), (cid \div cdim[3]) % cdim[2], cid % cdim[3]>>

\* sortlistID: the sort id of a relative position, 0 for no shift
sortlistID(i) ==
  IF i = 13 THEN 0
  ELSE space_getsid(<<0, 0, 0>>,
                    <<(i \div 9) - 1, ((i \div 3) % 3) - 1, (i % 3) - 1>>).sid

\* the tasks of the function are records of what scheduler_addtask is given
hydroloop_task(type, flags, ci, cj) ==
  [type |-> type, subtype |-> "density", flags |-> flags, ci |-> ci, cj |-> cj]

RECURSIVE grid_neighbours_both_ways(_, _, _, _)
\* the loops over the neighbours without the test that keeps one of the
\* two orders of a pair
grid_neighbours_both_ways(s, nodeID, cid, m) ==
  IF m > 26 THEN << >>
  ELSE
    LET c == cell_coords(s.cdim, cid)
        ii == (m \div 9) - 1
        jj == ((m \div 3) % 3) - 1
        kk == (m % 3) - 1
        out(x, dx) == ~s.periodic /\ (c[x] + dx < 0 \/ c[x] + dx >= s.cdim[x])
        wrap(x, dx) == (c[x] + dx + s.cdim[x]) % s.cdim[x]
        cjd == cell_getid(s.cdim, wrap(1, ii), wrap(2, jj), wrap(3, kk))
    IN IF out(1, ii) \/ out(2, jj) \/ out(3, kk)
       THEN grid_neighbours_both_ways(s, nodeID, cid, m + 1)
       ELSE IF cid = cjd \/ s.count[cjd] = 0
               \/ (s.nodeID[cid] # nodeID /\ s.nodeID[cjd] # nodeID)
       THEN grid_neighbours_both_ways(s, nodeID, cid, m + 1)
       ELSE <<hydroloop_task("pair",
                sortlistID((kk + 1) + 3 * ((jj + 1) + 3 * (ii + 1))),
                cid, cjd)>>
            \o grid_neighbours_both_ways(s, nodeID, cid, m + 1)

RECURSIVE grid_neighbours(_, _, _, _)
\* the loops over ii, jj and kk, in their order: m counts (ii, jj, kk); the
\* tasks added from m on
grid_neighbours(s, nodeID, cid, m) ==
  IF m > 26 THEN << >>
  ELSE
    LET c == cell_coords(s.cdim, cid)
        ii == (m \div 9) - 1
        jj == ((m \div 3) % 3) - 1
        kk == (m % 3) - 1
        out(x, dx) == ~s.periodic /\ (c[x] + dx < 0 \/ c[x] + dx >= s.cdim[x])
        wrap(x, dx) == (c[x] + dx + s.cdim[x]) % s.cdim[x]
        cjd == cell_getid(s.cdim, wrap(1, ii), wrap(2, jj), wrap(3, kk))
    IN IF out(1, ii) \/ out(2, jj) \/ out(3, kk)
       THEN grid_neighbours(s, nodeID, cid, m + 1)
       ELSE IF cid >= cjd \/ s.count[cjd] = 0
               \/ (s.nodeID[cid] # nodeID /\ s.nodeID[cjd] # nodeID)
       THEN grid_neighbours(s, nodeID, cid, m + 1)
       ELSE <<hydroloop_task("pair",
                sortlistID((kk + 1) + 3 * ((jj + 1) + 3 * (ii + 1))),
                cid, cjd)>>
            \o grid_neighbours(s, nodeID, cid, m + 1)

RECURSIVE grid_cells(_, _, _)
\* the loops over i, j and k: cid goes up with them; the tasks added from
\* cell cid on
grid_cells(s, nodeID, cid) ==
  IF cid >= s.cdim[1] * s.cdim[2] * s.cdim[3] THEN << >>
  ELSE IF s.count[cid] = 0 THEN grid_cells(s, nodeID, cid + 1)
  ELSE (IF s.nodeID[cid] = nodeID
        THEN <<hydroloop_task("self", 0, cid, NULL)>>
        ELSE << >>)
       \o grid_neighbours(s, nodeID, cid, 0)
       \o grid_cells(s, nodeID, cid + 1)

make_hydroloop_tasks_grid(s, nodeID) == grid_cells(s, nodeID, 0)

GridCdims == (1..MaxCdim) \X (1..MaxCdim) \X (1..MaxCdim)

\* no cell or one cell of the grid
NoneOrOne(cdim) ==
  {{}} \cup {{cid} : cid \in 0..(cdim[1] * cdim[2] * cdim[3] - 1)}

\* the grids: at most one cell is empty and at most one is foreign
GridSpaces ==
  {[cdim |-> cdim, periodic |-> periodic,
    count |-> [cid \in 0..(cdim[1] * cdim[2] * cdim[3] - 1) |->
                 IF cid \in empty THEN 0 ELSE 1],
    nodeID |-> [cid \in 0..(cdim[1] * cdim[2] * cdim[3] - 1) |->
                  IF cid \in foreign THEN 1 ELSE 0]] :
     cdim \in GridCdims, periodic \in BOOLEAN,
     empty \in {{}, {0}}, foreign \in {{}, {0}, {1}}}

HydroloopInit ==
  /\ \E s \in GridSpaces :
       call = [op |-> "engine_make_hydroloop_tasks", s |-> s, nodeID |-> 0,
               tasks |-> << >>, ret |-> "none"]
  /\ NoLaunch

hydroloop_call ==
  /\ call.op = "engine_make_hydroloop_tasks" /\ call.ret = "none"
  /\ call' = [call EXCEPT
                !.tasks = make_hydroloop_tasks_grid(call.s, call.nodeID),
                !.ret = "returned"]
  /\ UNCHANGED launch_vars

HydroloopSpec == HydroloopInit /\ [][hydroloop_call]_vars

\* two distinct cells of the grid are next to each other, around the box
\* when the space is periodic
grid_adjacent(s, a, b) ==
  /\ a # b
  /\ \A x \in 1..3 :
       LET d == cell_coords(s.cdim, b)[x] - cell_coords(s.cdim, a)[x]
       IN \/ d \in {-1, 0, 1}
          \/ s.periodic /\ (d = s.cdim[x] - 1 \/ d = 1 - s.cdim[x])

\* the pairs of cells that are to have a task: a < b
grid_pairs(s, nodeID) ==
  {ab \in (DOMAIN s.count) \X (DOMAIN s.count) :
     /\ ab[1] < ab[2]
     /\ grid_adjacent(s, ab[1], ab[2])
     /\ s.count[ab[1]] > 0 /\ s.count[ab[2]] > 0
     /\ (s.nodeID[ab[1]] = nodeID \/ s.nodeID[ab[2]] = nodeID)}

\* the pair tasks on the cells a and b, in either order
pair_tasks_on(ts, a, b) ==
  {k \in 1..Len(ts) : /\ ts[k].type = "pair"
                      /\ {ts[k].ci, ts[k].cj} = {a, b}}

hydroloop_one_pair_each ==
  /\ \A ab \in grid_pairs(call.s, call.nodeID) :
       Cardinality(pair_tasks_on(call.tasks, ab[1], ab[2])) = 1
  /\ \A k \in 1..Len(call.tasks) :
       call.tasks[k].type = "pair" =>
         /\ call.tasks[k].ci < call.tasks[k].cj
         /\ <<call.tasks[k].ci, call.tasks[k].cj>>
              \in grid_pairs(call.s, call.nodeID)

\* C36: when engine_make_hydroloop_tasks has returned, whatever the size
\* of the grid and whether the space is periodic or not, there is exactly
\* one pair task of subtype density for every two distinct neighbouring
\* cells that have particles and of which one is local, its ci has the
\* smaller index, and no two pair tasks are on the same two cells.
C36_OnePairPerNeighbours ==
  (call.op = "engine_make_hydroloop_tasks" /\ call.ret = "returned") =>
    hydroloop_one_pair_each


\* C36, amended: the same for the spaces that are not periodic, whatever
\* the size of the grid, and for the periodic spaces of three cells or more
\* in every dimension.
C36_OnePairOnWideGrids ==
  (/\ call.op = "engine_make_hydroloop_tasks" /\ call.ret = "returned"
   /\ (call.s.periodic => \A x \in 1..3 : call.s.cdim[x] >= 3)) =>
    hydroloop_one_pair_each

\* the tasks of a periodic grid of 3 x 3 x 3 cells, one of them foreign:
\* the cells 0 and 2, at the two ends of a row, have their one pair task
C36_Witness ==
  /\ call.op = "engine_make_hydroloop_tasks" /\ call.ret = "returned"
  /\ call.s.periodic /\ call.s.cdim = <<3, 3, 3>>
  /\ call.s.nodeID[1] = 1
  /\ \E k \in 1..Len(call.tasks) :
       /\ call.tasks[k].type = "pair"
       /\ call.tasks[k].ci = 0 /\ call.tasks[k].cj = 2

(***************************************************************************)
(* The steps of the ranks of a run: each rank has its own engine and goes  *)
(* through engine_step on its own; the ranks meet in the MPI_Allreduce of  *)
(* engine_prepare.  A build without MPI has one rank and no MPI_Allreduce. *)
(* call.repart holds the steps at which a repartition is asked for, on     *)
(* every rank; call.reduce[n][r] is what rank r gave to the MPI_Allreduce  *)
(* of step n, call.decided[n][r] what it did after it.                     *)
(***************************************************************************)
Ranks == 0..(call.nr_nodes - 1)

NotYet == "none"

\* no rebuild flag yet: the flags are 0 and 1
NotGiven == -1

\* the ranks that gave their rebuild flag to the MPI_Allreduce of step n
reduce_given(n) == {r \in Ranks : call.reduce[n][r] # NotGiven}

\* every rank keeps its own flag
prepare_buff_local(n, r) == call.reduce[n][r]

\* the result of MPI_Allreduce with MPI_MAX on rank r, of its own flag
\* without MPI
prepare_buff(n, r) ==
  IF call.with_mpi
  THEN IF \E r2 \in Ranks : call.reduce[n][r2] = 1 THEN 1 ELSE 0
  ELSE call.reduce[n][r]

\* engine_repartition redistributes the particles of this engine
redistributes(en) ==
  en.nr_nodes > 1 /\ en.repartdata.reparttype \in RepartTypes

RanksInit ==
  /\ \E with_mpi \in BOOLEAN, nr_nodes \in 1..NrNodes,
        reparttype \in RepartTypes, repart \in SUBSET (1..MaxSteps) :
       /\ ~with_mpi => (nr_nodes = 1 /\ repart = {})
       /\ call = [op |-> "engine_step", with_mpi |-> with_mpi,
                  nr_nodes |-> nr_nodes, repart |-> repart,
                  rank |-> [r \in 0..(nr_nodes - 1) |->
                     [pc |-> "idle", step |-> 0, stale |-> FALSE,
                      redistributed |-> FALSE, ran_stale |-> FALSE,
                      en |-> [nr_nodes |-> nr_nodes,
                              reparttype |-> reparttype,
                              forcerepart |-> FALSE, forcerebuild |-> TRUE,
                              drift_all |-> FALSE,
                              repartdata |-> [reparttype |-> reparttype,
                                              nr_cells |-> 0, count |-> 0],
                              err |-> ""]]],
                  reduce |-> [n \in 1..MaxSteps |->
                                [r \in 0..(nr_nodes - 1) |-> NotGiven]],
                  decided |-> [n \in 1..MaxSteps |->
                                 [r \in 0..(nr_nodes - 1) |-> NotYet]]]
  /\ NoLaunch

in_rank(r, pc) ==
  /\ call.op = "engine_step" /\ "rank" \in DOMAIN call
  /\ r \in Ranks
  /\ call.rank[r].pc = pc /\ call.rank[r].en.err = ""

\* engine_step up to and with engine_drift (engine.c:2686-2753), after the
\* repartition was asked for or not
rank_drift(r) ==
  /\ in_rank(r, "idle")
  /\ call.rank[r].step < MaxSteps
  /\ LET n == call.rank[r].step + 1
         force == n \in call.repart
     IN call' = [call EXCEPT
          !.rank[r].pc = "drifted", !.rank[r].step = n,
          !.rank[r].redistributed = FALSE,
          !.rank[r].en.forcerepart = force,
          !.rank[r].en.drift_all = force]
  /\ UNCHANGED launch_vars

\* the repartition branch of engine_step (engine.c:2755-2765)
rank_repart(r) ==
  /\ in_rank(r, "drifted")
  /\ LET en == call.rank[r].en
     IN call' = [call EXCEPT
          !.rank[r].pc = "reparted",
          !.rank[r].en =
            IF en.forcerepart THEN engine_repartition(en) ELSE en,
          !.rank[r].redistributed = en.forcerepart /\ redistributes(en),
          !.rank[r].stale = @ \/ (en.forcerepart /\ redistributes(en))]
  /\ UNCHANGED launch_vars

\* engine_prepare up to the MPI_Allreduce (engine.c:2279-2289):
\* engine_marktasks, called when forcerebuild is not set, asks for a
\* rebuild or not
rank_mark(r) ==
  /\ in_rank(r, "reparted")
  /\ \E marked \in BOOLEAN :
       /\ call.rank[r].en.forcerebuild => marked
       /\ call' = [call EXCEPT
            !.rank[r].pc = "allreduce",
            !.reduce[call.rank[r].step][r] =
              IF call.rank[r].en.forcerebuild \/ marked THEN 1 ELSE 0]
  /\ UNCHANGED launch_vars

\* the rest of engine_prepare (engine.c:2289-2304), with engine_rebuild
\* (engine.c:2237-2265) when the flag says so
rank_rebuild(r) ==
  /\ in_rank(r, "allreduce")
  /\ LET n == call.rank[r].step
     IN /\ call.with_mpi => reduce_given(n) = Ranks
        /\ IF prepare_buff(n, r) # 0
           THEN call' = [call EXCEPT
                  !.rank[r].pc = "prepared",
                  !.rank[r].en.forcerebuild = FALSE,
                  !.rank[r].stale = FALSE,
                  !.decided[n][r] = "engine_rebuild"]
           ELSE call' = [call EXCEPT
                  !.rank[r].pc = "prepared",
                  !.decided[n][r] = "kept"]
  /\ UNCHANGED launch_vars

\* the rest of engine_step with engine_launch (engine.c:2770-2851)
rank_launch(r) ==
  /\ in_rank(r, "prepared")
  /\ call' = [call EXCEPT
       !.rank[r].pc = "idle",
       !.rank[r].en.drift_all = FALSE,
       !.rank[r].ran_stale = @ \/ call.rank[r].stale]
  /\ UNCHANGED launch_vars

RanksNext ==
  \E r \in Ranks :
    \/ rank_drift(r)
    \/ rank_repart(r)
    \/ rank_mark(r)
    \/ rank_rebuild(r)
    \/ rank_launch(r)

RanksSpec == RanksInit /\ [][RanksNext]_vars

\* C37: in every step, a rank that is through engine_prepare has called
\* engine_rebuild if forcerebuild was set on some rank or the
\* engine_marktasks of some rank asked for a rebuild, and has not called it
\* otherwise: the ranks all do the same.
C37_SameRebuildDecision ==
  (call.op = "engine_step" /\ "rank" \in DOMAIN call) =>
    \A n \in 1..MaxSteps : \A r \in Ranks :
      call.decided[n][r] # NotYet =>
        (call.decided[n][r] = "engine_rebuild"
           <=> \E r2 \in Ranks : call.reduce[n][r2] = 1)

\* two ranks are through the engine_prepare of a step in which only rank 1
\* asked for a rebuild: both have called engine_rebuild
C37_Witness ==
  /\ call.op = "engine_step" /\ "rank" \in DOMAIN call
  /\ call.nr_nodes = 2
  /\ \E n \in 2..MaxSteps :
       /\ call.reduce[n][0] = 0 /\ call.reduce[n][1] = 1
       /\ call.decided[n][0] = "engine_rebuild"
       /\ call.decided[n][1] = "engine_rebuild"

\* C38: a rank on which engine_repartition has redistributed the particles
\* in a step has forcerepart cleared and forcerebuild set when it comes to
\* engine_prepare, and has rebuilt its cells and its tasks when it comes to
\* engine_launch: no rank ever launches tasks made before a repartition.
C38_RebuildAfterRepartition ==
  (call.op = "engine_step" /\ "rank" \in DOMAIN call) =>
    \A r \in Ranks :
      /\ (call.rank[r].pc = "reparted" /\ call.rank[r].redistributed) =>
           /\ ~call.rank[r].en.forcerepart
           /\ call.rank[r].en.forcerebuild
      /\ (call.rank[r].pc = "prepared" /\ call.rank[r].redistributed) =>
           /\ call.decided[call.rank[r].step][r] = "engine_rebuild"
           /\ ~call.rank[r].stale
      /\ ~call.rank[r].ran_stale

\* a rank is about to launch the tasks of its second step, in which it has
\* redistributed its particles and then rebuilt
C38_Witness ==
  /\ call.op = "engine_step" /\ "rank" \in DOMAIN call
  /\ \E r \in Ranks :
       /\ call.rank[r].pc = "prepared" /\ call.rank[r].step = 2
       /\ call.rank[r].redistributed
       /\ call.decided[2][r] = "engine_rebuild"

(***************************************************************************)
(* The choice of the queue in scheduler_enqueue, called on its own on a    *)
(* task that is neither skipped nor implicit: the owners of the super      *)
(* cells of its cells are queues or not set (-1), counts[q] is the count   *)
(* of queue q.  call.read holds the indices at which s->queues was read,   *)
(* call.qid the index of the queue the task was inserted in.               *)
(***************************************************************************)
NoOwner == -1

QidTypes == {"self", "sub_self", "sort", "ghost", "kick", "init", "pair",
             "sub_pair", "grav_mm"}

\* the two owners that are looked at: those of super, or of gsuper for
\* gravity, the same cells here
enqueue_owner_qid(type) ==
  IF type \in {"self", "sub_self", "sort", "ghost", "kick", "init"}
  THEN "ci" ELSE IF type \in {"pair", "sub_pair"} THEN "both" ELSE "none"

\* the indices of s->queues that the test of a pair reads
enqueue_pair_reads(owner_i, owner_j) ==
  IF owner_i < 0 THEN {} ELSE {owner_i, owner_j}

QidInit ==
  /\ \E type \in QidTypes, nr_queues \in 1..NrQueues :
       \E owner_i \in NoOwner..(nr_queues - 1),
          owner_j \in NoOwner..(nr_queues - 1),
          counts \in [0..(nr_queues - 1) -> 0..1] :
         call = [op |-> "scheduler_enqueue_qid", type |-> type,
                 nr_queues |-> nr_queues, owner_i |-> owner_i,
                 owner_j |-> owner_j, counts |-> counts,
                 read |-> {}, qid |-> -1, ret |-> "none"]
  /\ NoLaunch

\* the switch on the type (scheduler.c:1102-1170), then the tests on qid
\* and the insertion (scheduler.c:1175-1185).  A count read outside
\* s->queues is any number, or the read stops the program.
enqueue_qid_call ==
  /\ call.op = "scheduler_enqueue_qid" /\ call.ret = "none"
  /\ \E rnd \in 0..(call.nr_queues - 1),
        ub \in {"greater", "not greater", "stopped"} :
       LET kind == enqueue_owner_qid(call.type)
           read == IF kind = "both"
                   THEN enqueue_pair_reads(call.owner_i, call.owner_j)
                   ELSE {}
           inside == read \subseteq 0..(call.nr_queues - 1)
           greater == IF inside
                      THEN call.counts[call.owner_i]
                             > call.counts[call.owner_j]
                      ELSE ub = "greater"
           qid == IF kind = "none" THEN -1
                  ELSE IF kind = "ci" THEN call.owner_i
                  ELSE IF call.owner_i < 0 \/ greater THEN call.owner_j
                  ELSE call.owner_i
       IN /\ inside => ub = "greater"
          /\ call' = [call EXCEPT
               !.read = read,
               !.qid = IF qid < 0 THEN rnd ELSE qid,
               !.ret = IF ~inside /\ ub = "stopped" THEN "stopped"
                       ELSE IF qid >= call.nr_queues THEN "Bad computed qid."
                       ELSE "inserted"]
  /\ UNCHANGED launch_vars

QidSpec == QidInit /\ [][enqueue_qid_call]_vars

\* C39: scheduler_enqueue reads and writes s->queues only at indices from
\* 0 to nr_queues - 1, whatever the owners of the super cells of the two
\* cells of a pair or sub_pair are, not set or set.
C39_QueueIndexInRange ==
  (call.op = "scheduler_enqueue_qid" /\ call.ret # "none") =>
    /\ call.read \subseteq 0..(call.nr_queues - 1)
    /\ call.ret = "inserted" => call.qid \in 0..(call.nr_queues - 1)

(***************************************************************************)
(* check_complete of partition.c called on its own: nodeID[k] is the node  *)
(* of top-level cell k of the space, nregions the number of regions.       *)
(* call.indexed holds the indices at which present was written.            *)
(***************************************************************************)
MaxRegions == 3

\* the indices of present that the loop over the cells increments
complete_indexed(nodeID, nregions) ==
  {nodeID[k] : k \in {c \in 1..Len(nodeID) : nodeID[c] <= nregions}}

\* present after the loop over the cells, for the indices inside the array
complete_present(nodeID, nregions) ==
  [i \in 0..(nregions - 1) |->
     Cardinality({k \in 1..Len(nodeID) :
                    nodeID[k] <= nregions /\ nodeID[k] = i})]

\* the value returned: !failed
check_complete(nodeID, nregions) ==
  ~\E i \in 0..(nregions - 1) : complete_present(nodeID, nregions)[i] = 0

CompleteInit ==
  /\ \E nregions \in 1..MaxRegions :
       \E nodeID \in [1..NrCells -> (-1)..(nregions + 1)] :
         call = [op |-> "check_complete", nodeID |-> nodeID,
                 nregions |-> nregions, indexed |-> {}, ret |-> "none"]
  /\ NoLaunch

\* check_complete(s, verbose, nregions) (partition.c:1109-1130).  An
\* increment outside present changes other memory: the function goes on,
\* or the program stops
check_complete_call ==
  /\ call.op = "check_complete" /\ call.ret = "none"
  /\ \E ub \in {"goes on", "stopped"} :
       LET indexed == complete_indexed(call.nodeID, call.nregions)
           inside == indexed \subseteq 0..(call.nregions - 1)
       IN /\ inside => ub = "goes on"
          /\ call' = [call EXCEPT
               !.indexed = indexed,
               !.ret = IF ub = "stopped" THEN "stopped"
                       ELSE IF check_complete(call.nodeID, call.nregions)
                       THEN "true" ELSE "false"]
  /\ UNCHANGED launch_vars

CompleteSpec == CompleteInit /\ [][check_complete_call]_vars

\* C40: check_complete returns true exactly when every region from 0 to
\* nregions - 1 is the nodeID of a top-level cell, and it indexes present
\* only from 0 to nregions - 1, whatever the nodeIDs of the cells are.
C40_CompleteAndInBounds ==
  (call.op = "check_complete" /\ call.ret # "none") =>
    /\ call.indexed \subseteq 0..(call.nregions - 1)
    /\ call.ret = (IF \A i \in 0..(call.nregions - 1) :
                        \E k \in 1..NrCells : call.nodeID[k] = i
                   THEN "true" ELSE "false")
====
